---- MODULE Spec2Model ----
(***************************************************************************)
(* Gallery backend: the upload request path of POST /api/upload           *)
(* (multer middleware, uploadImages controller, EmbeddingService and      *)
(* errorHandler), modelled at the granularity of the awaited calls.       *)
(***************************************************************************)
EXTENDS Integers, Sequences, FiniteSets, TLC

\* ------------------------------------------------------------------------
\* Bounds of the model
\* ------------------------------------------------------------------------
\* largest number of file parts in one multipart request
MaxFiles == 2

\* ------------------------------------------------------------------------
\* Program values
\* ------------------------------------------------------------------------
\* 10 * 1024 * 1024, the size ceiling of validateUploadedFile
maxSize == 10485760
\* limits.fileSize of the multer configuration
fileSizeLimit == 10485760
\* upload.array('images', 10) and limits.files
maxCount == 10

\* ------------------------------------------------------------------------
\* Error messages, as the character sequences the code builds, so that
\* String.prototype.includes can be computed on them (case-sensitive).
\* ------------------------------------------------------------------------
\* "No file uploaded"
MsgNoFile ==
  <<
    "N", "o", " ", "f", "i", "l", "e", " ", "u", "p", "l", "o", "a", "d", "e",
    "d" >>

\* "File size too large. Maximum size is 10MB"
MsgFileTooLarge ==
  <<
    "F", "i", "l", "e", " ", "s", "i", "z", "e", " ", "t", "o", "o", " ", "l",
    "a", "r", "g", "e", ".", " ", "M", "a", "x", "i", "m", "u", "m", " ", "s",
    "i", "z", "e", " ", "i", "s", " ", "1", "0", "M", "B" >>

\* "Invalid file type. Only JPEG, PNG, GIF, and WebP images are allowed"
MsgInvalidType ==
  <<
    "I", "n", "v", "a", "l", "i", "d", " ", "f", "i", "l", "e", " ", "t", "y",
    "p", "e", ".", " ", "O", "n", "l", "y", " ", "J", "P", "E", "G", ",", " ",
    "P", "N", "G", ",", " ", "G", "I", "F", ",", " ", "a", "n", "d", " ", "W",
    "e", "b", "P", " ", "i", "m", "a", "g", "e", "s", " ", "a", "r", "e", " ",
    "a", "l", "l", "o", "w", "e", "d" >>

\* "Invalid Azure OpenAI API key or configuration. Please check your credentials in .env file"
MsgOpenAIAuth ==
  <<
    "I", "n", "v", "a", "l", "i", "d", " ", "A", "z", "u", "r", "e", " ", "O",
    "p", "e", "n", "A", "I", " ", "A", "P", "I", " ", "k", "e", "y", " ", "o",
    "r", " ", "c", "o", "n", "f", "i", "g", "u", "r", "a", "t", "i", "o", "n",
    ".", " ", "P", "l", "e", "a", "s", "e", " ", "c", "h", "e", "c", "k", " ",
    "y", "o", "u", "r", " ", "c", "r", "e", "d", "e", "n", "t", "i", "a", "l",
    "s", " ", "i", "n", " ", ".", "e", "n", "v", " ", "f", "i", "l", "e" >>

\* "Azure OpenAI API rate limit exceeded. Please try again later"
MsgOpenAIRateLimit ==
  <<
    "A", "z", "u", "r", "e", " ", "O", "p", "e", "n", "A", "I", " ", "A", "P",
    "I", " ", "r", "a", "t", "e", " ", "l", "i", "m", "i", "t", " ", "e", "x",
    "c", "e", "e", "d", "e", "d", ".", " ", "P", "l", "e", "a", "s", "e", " ",
    "t", "r", "y", " ", "a", "g", "a", "i", "n", " ", "l", "a", "t", "e", "r" >>

\* "Invalid image format or request. Please check the image file and deployment configuration"
MsgOpenAIBadImage ==
  <<
    "I", "n", "v", "a", "l", "i", "d", " ", "i", "m", "a", "g", "e", " ", "f",
    "o", "r", "m", "a", "t", " ", "o", "r", " ", "r", "e", "q", "u", "e", "s",
    "t", ".", " ", "P", "l", "e", "a", "s", "e", " ", "c", "h", "e", "c", "k",
    " ", "t", "h", "e", " ", "i", "m", "a", "g", "e", " ", "f", "i", "l", "e",
    " ", "a", "n", "d", " ", "d", "e", "p", "l", "o", "y", "m", "e", "n", "t",
    " ", "c", "o", "n", "f", "i", "g", "u", "r", "a", "t", "i", "o", "n" >>

\* "Azure OpenAI deployment not found. Please check OPENAI_DEPLOYMENT_NAME in .env file"
MsgOpenAIVisionNotFound ==
  <<
    "A", "z", "u", "r", "e", " ", "O", "p", "e", "n", "A", "I", " ", "d", "e",
    "p", "l", "o", "y", "m", "e", "n", "t", " ", "n", "o", "t", " ", "f", "o",
    "u", "n", "d", ".", " ", "P", "l", "e", "a", "s", "e", " ", "c", "h", "e",
    "c", "k", " ", "O", "P", "E", "N", "A", "I", "_", "D", "E", "P", "L", "O",
    "Y", "M", "E", "N", "T", "_", "N", "A", "M", "E", " ", "i", "n", " ", ".",
    "e", "n", "v", " ", "f", "i", "l", "e" >>

\* "Azure OpenAI embedding deployment not found. Please check OPENAI_EMBEDDING_DEPLOYMENT in .env file"
MsgOpenAIEmbeddingNotFound ==
  <<
    "A", "z", "u", "r", "e", " ", "O", "p", "e", "n", "A", "I", " ", "e", "m",
    "b", "e", "d", "d", "i", "n", "g", " ", "d", "e", "p", "l", "o", "y", "m",
    "e", "n", "t", " ", "n", "o", "t", " ", "f", "o", "u", "n", "d", ".", " ",
    "P", "l", "e", "a", "s", "e", " ", "c", "h", "e", "c", "k", " ", "O", "P",
    "E", "N", "A", "I", "_", "E", "M", "B", "E", "D", "D", "I", "N", "G", "_",
    "D", "E", "P", "L", "O", "Y", "M", "E", "N", "T", " ", "i", "n", " ", ".",
    "e", "n", "v", " ", "f", "i", "l", "e" >>

\* "Azure OpenAI configuration incomplete. Missing or invalid: OPENAI_API_KEY. Please configure these in your .env file."
MsgConfigIncomplete ==
  <<
    "A", "z", "u", "r", "e", " ", "O", "p", "e", "n", "A", "I", " ", "c", "o",
    "n", "f", "i", "g", "u", "r", "a", "t", "i", "o", "n", " ", "i", "n", "c",
    "o", "m", "p", "l", "e", "t", "e", ".", " ", "M", "i", "s", "s", "i", "n",
    "g", " ", "o", "r", " ", "i", "n", "v", "a", "l", "i", "d", ":", " ", "O",
    "P", "E", "N", "A", "I", "_", "A", "P", "I", "_", "K", "E", "Y", ".", " ",
    "P", "l", "e", "a", "s", "e", " ", "c", "o", "n", "f", "i", "g", "u", "r",
    "e", " ", "t", "h", "e", "s", "e", " ", "i", "n", " ", "y", "o", "u", "r",
    " ", ".", "e", "n", "v", " ", "f", "i", "l", "e", "." >>

\* "Request timed out."
MsgTimeout ==
  <<
    "R", "e", "q", "u", "e", "s", "t", " ", "t", "i", "m", "e", "d", " ", "o",
    "u", "t", "." >>

\* "400 status code (no body)"
MsgRawBadRequest ==
  <<
    "4", "0", "0", " ", "s", "t", "a", "t", "u", "s", " ", "c", "o", "d", "e",
    " ", "(", "n", "o", " ", "b", "o", "d", "y", ")" >>

\* "Failed to connect to Qdrant"
MsgStoreUnavailable ==
  <<
    "F", "a", "i", "l", "e", "d", " ", "t", "o", " ", "c", "o", "n", "n", "e",
    "c", "t", " ", "t", "o", " ", "Q", "d", "r", "a", "n", "t" >>

\* "EPERM: operation not permitted, unlink"
MsgUnlinkFailed ==
  <<
    "E", "P", "E", "R", "M", ":", " ", "o", "p", "e", "r", "a", "t", "i", "o",
    "n", " ", "n", "o", "t", " ", "p", "e", "r", "m", "i", "t", "t", "e", "d",
    ",", " ", "u", "n", "l", "i", "n", "k" >>

NeedleOpenAI == << "O", "p", "e", "n", "A", "I" >>
NeedleQdrant == << "Q", "d", "r", "a", "n", "t" >>
NeedleFile == << "f", "i", "l", "e" >>
NeedleUpload == << "u", "p", "l", "o", "a", "d" >>
NeedleApiKey == << "A", "P", "I", " ", "k", "e", "y" >>

\* the errors that travel through the service, named by an identifier;
\* message(e) is error.message
NoError == "none"

message(e) ==
  CASE e = "E_NO_FILE" -> MsgNoFile
    [] e = "E_FILE_TOO_LARGE" -> MsgFileTooLarge
    [] e = "E_INVALID_TYPE" -> MsgInvalidType
    [] e = "E_OPENAI_AUTH" -> MsgOpenAIAuth
    [] e = "E_OPENAI_RATE_LIMIT" -> MsgOpenAIRateLimit
    [] e = "E_OPENAI_BAD_IMAGE" -> MsgOpenAIBadImage
    [] e = "E_OPENAI_VISION_NOT_FOUND" -> MsgOpenAIVisionNotFound
    [] e = "E_OPENAI_EMBEDDING_NOT_FOUND" -> MsgOpenAIEmbeddingNotFound
    [] e = "E_CONFIG_INCOMPLETE" -> MsgConfigIncomplete
    [] e = "E_TIMEOUT" -> MsgTimeout
    [] e = "E_RAW_400" -> MsgRawBadRequest
    [] e = "E_STORE_UNAVAILABLE" -> MsgStoreUnavailable
    [] e = "E_UNLINK" -> MsgUnlinkFailed
    [] OTHER -> << >>

\* String.prototype.includes
includes(s, t) ==
  \E k \in 0..(Len(s) - Len(t)) : SubSeq(s, k + 1, k + Len(t)) = t

\* ------------------------------------------------------------------------
\* error.middleware: errorHandler
\* ------------------------------------------------------------------------
errorCode(msg) ==
  LET c0 == "INTERNAL_ERROR"
      c1 == IF msg # << >> /\ includes(msg, NeedleOpenAI) THEN "OPENAI_ERROR" ELSE c0
      c2 == IF msg # << >> /\ includes(msg, NeedleQdrant) THEN "DATABASE_ERROR" ELSE c1
      c3 == IF msg # << >> /\ (includes(msg, NeedleFile) \/ includes(msg, NeedleUpload))
            THEN "FILE_ERROR" ELSE c2
      c4 == IF msg # << >> /\ includes(msg, NeedleApiKey) THEN "CONFIG_ERROR" ELSE c3
  IN  c4

statusOfCode(code) ==
  IF code = "FILE_ERROR" \/ code = "CONFIG_ERROR" THEN 400
  ELSE IF code = "OPENAI_ERROR" THEN 502
  ELSE IF code = "DATABASE_ERROR" THEN 503
  ELSE 500

errorHandler(e) ==
  [kind |-> "error", status |-> statusOfCode(errorCode(message(e))),
   code |-> errorCode(message(e)), error |-> e]

\* ------------------------------------------------------------------------
\* embedding.service: validateUploadedFile.  NoFile stands for an absent
\* (undefined) file; the result is "ok" (returns true) or the error thrown.
\* ------------------------------------------------------------------------
NoFile == [absent |-> TRUE]

validateAllowedTypes ==
  {"image/jpeg", "image/jpg", "image/png", "image/gif", "image/webp"}

validateUploadedFile(file) ==
  IF file = NoFile THEN "E_NO_FILE"
  ELSE IF file.size > maxSize THEN "E_FILE_TOO_LARGE"
  ELSE IF file.mimetype \notin validateAllowedTypes THEN "E_INVALID_TYPE"
  ELSE "ok"

\* ------------------------------------------------------------------------
\* upload.middleware: fileFilter, multer's array('images', 10), and
\* handleUploadError
\* ------------------------------------------------------------------------
filterAllowedTypes ==
  {"image/jpeg", "image/jpg", "image/png", "image/gif", "image/webp", "image/bmp"}

fileFilter(part) == part.mimetype \in filterAllowedTypes

\* field name accepted by the multer instance adaptiveUpload delegates to
uploadFieldName == "images"

\* outcome of multer on one file part, given how many files came before it
multerPart(part, k) ==
  IF k > maxCount THEN "LIMIT_FILE_COUNT"
  ELSE IF part.fieldname # uploadFieldName THEN "LIMIT_UNEXPECTED_FILE"
  ELSE IF ~fileFilter(part) THEN "FILTER_REJECTED"
  ELSE IF part.size > fileSizeLimit THEN "LIMIT_FILE_SIZE"
  ELSE "ok"

\* the first error multer meets over the parts, "ok" when there is none
RECURSIVE uploadMultiple(_, _)
uploadMultiple(parts, k) ==
  IF k > Len(parts) THEN "ok"
  ELSE IF multerPart(parts[k], k) # "ok" THEN multerPart(parts[k], k)
  ELSE uploadMultiple(parts, k + 1)

handleUploadError(err) ==
  CASE err = "LIMIT_FILE_SIZE" ->
         [kind |-> "error", status |-> 400, code |-> "FILE_TOO_LARGE", error |-> err]
    [] err = "LIMIT_FILE_COUNT" ->
         [kind |-> "error", status |-> 400, code |-> "TOO_MANY_FILES", error |-> err]
    [] err = "LIMIT_UNEXPECTED_FILE" ->
         [kind |-> "error", status |-> 400, code |-> "UNEXPECTED_FIELD", error |-> err]
    [] OTHER ->
         [kind |-> "error", status |-> 400, code |-> "INVALID_FILE", error |-> err]

\* req.files as multer leaves it when every part was accepted: the k-th file
\* is stored under a path of its own
storedFiles(parts) ==
  [k \in 1..Len(parts) |->
     [path |-> k, originalname |-> parts[k].originalname,
      mimetype |-> parts[k].mimetype, size |-> parts[k].size]]

\* ------------------------------------------------------------------------
\* openai.service: the error each provider status is turned into
\* (0 stands for an error without a status, such as a timeout)
\* ------------------------------------------------------------------------
rawError(status) == IF status = 400 THEN "E_RAW_400" ELSE "E_TIMEOUT"

generateImageDescriptionError(status) ==
  IF status = 401 THEN "E_OPENAI_AUTH"
  ELSE IF status = 429 THEN "E_OPENAI_RATE_LIMIT"
  ELSE IF status = 400 THEN "E_OPENAI_BAD_IMAGE"
  ELSE IF status = 404 THEN "E_OPENAI_VISION_NOT_FOUND"
  ELSE rawError(status)

generateTextEmbeddingError(status) ==
  IF status = 401 THEN "E_OPENAI_AUTH"
  ELSE IF status = 429 THEN "E_OPENAI_RATE_LIMIT"
  ELSE IF status = 404 THEN "E_OPENAI_EMBEDDING_NOT_FOUND"
  ELSE rawError(status)

\* ------------------------------------------------------------------------
\* Inputs of the model
\* ------------------------------------------------------------------------
\* the file parts a multipart request is built from
PartKinds ==
  { [fieldname |-> "images", originalname |-> "a.jpg", mimetype |-> "image/jpeg", size |-> 1024],
    [fieldname |-> "images", originalname |-> "e.png", mimetype |-> "image/png", size |-> fileSizeLimit],
    [fieldname |-> "images", originalname |-> "b.bmp", mimetype |-> "image/bmp", size |-> 1024],
    [fieldname |-> "images", originalname |-> "c.txt", mimetype |-> "text/plain", size |-> 1024],
    [fieldname |-> "images", originalname |-> "d.jpg", mimetype |-> "image/jpeg", size |-> fileSizeLimit + 1],
    [fieldname |-> "image", originalname |-> "a.jpg", mimetype |-> "image/jpeg", size |-> 1024] }

PartSeqs == UNION { [1..n -> PartKinds] : n \in 0..MaxFiles }

\* three accepted files, the first and the last under the same name
ScenarioParts ==
  LET a == [fieldname |-> "images", originalname |-> "a.jpg",
            mimetype |-> "image/jpeg", size |-> 1024]
      e == [fieldname |-> "images", originalname |-> "e.png",
            mimetype |-> "image/png", size |-> fileSizeLimit]
  IN  << a, e, a >>

Requests ==
  { [contentType |-> "multipart/form-data", parts |-> ps] :
      ps \in PartSeqs \cup {ScenarioParts} }
    \cup { [contentType |-> "application/json", parts |-> << >>] }

\* statuses the description / embedding provider answers with
ProviderStatuses == {200, 400, 429, 0}

\* faults of the file system while the temporary file is deleted
CleanupFaults == {"none", "unlink"}

\* the files validateUploadedFile is applied to on its own
ValidateSizes == {0, 1024, maxSize - 1, maxSize, maxSize + 1, 2 * maxSize}
ValidateTypes ==
  {"image/jpeg", "image/jpg", "image/png", "image/gif", "image/webp",
   "image/bmp", "image/tiff", "text/plain", "application/pdf"}
ValidateFiles ==
  {NoFile} \cup { [path |-> 1, originalname |-> "f", mimetype |-> m, size |-> s] :
                    m \in ValidateTypes, s \in ValidateSizes }

\* ------------------------------------------------------------------------
\* State
\* ------------------------------------------------------------------------
VARIABLES
  req,            \* the request as received: content type and file parts
  hpc,            \* position of the request in middleware / controller
  reqFiles,       \* req.files as left by multer
  isInitialized,  \* EmbeddingService.isInitialized
  configValid,    \* whether the process environment passes validateApiKey
  proc,           \* per file: position in processUploadedImage and its locals
  calls,          \* per file: number of calls of each collaborator
  hist,           \* per file: first processing error, pushes to results/errors
  inflight,       \* awaited external calls not yet settled, as <<file, call>>
  uploads,        \* paths present in the uploads directory
  stored,         \* records upserted into the vector store
  results,        \* processMultipleImages: results
  errors,         \* processMultipleImages: errors
  loopIdx,        \* processMultipleImages: index of the file of the iteration
  awaiting,       \* processMultipleImages: suspended in the await of line 104
  resp,           \* the HTTP response sent, NoResp before
  now,            \* number of readings of the clock by processImage
  vfile,          \* file handed to validateUploadedFile on its own
  vres            \* what that call and errorHandler made of it

VARIABLES
  sreq,           \* body of a POST /api/query request: query, limit, scoreThreshold
  spc,            \* position of the search request in queryImages / searchImages
  sparams,        \* arguments queryImages hands to searchImages
  scalls,         \* search: number of calls of each collaborator
  sresp,          \* the HTTP response of the search request
  sstore,         \* records of the vector store with their similarity to the query
  gquery,         \* frontend: query handed to searchWithSuggestions
  gresult,        \* frontend: what searchImages answered
  gout,           \* frontend: what searchWithSuggestions returned
  script,         \* paired run: the collaborator responses both runs receive
  phase,          \* paired run: which of the two runs is under way
  runA            \* paired run: outcome of the single-item run

VARIABLES
  grequests,      \* frontend: HTTP requests searchWithSuggestions has issued
  callers,        \* lifecycle: the startup initialisation and the concurrent requests
  initializeCalls,\* lifecycle: number of calls of EmbeddingService.initialize
  serving,        \* lifecycle: whether the process is up and takes requests
  hstate,         \* search hook: the gallery state the reducer keeps
  isSearching,    \* search hook: the isSearching flag of useImageSearch
  searches        \* search hook: the calls of searchImages started so far

searchVars == << sreq, spc, sparams, scalls, sresp, sstore >>
suggestVars == << gquery, gresult, gout, grequests >>
pairVars == << script, phase, runA >>
lifeVars == << callers, initializeCalls, serving >>
hookVars == << hstate, isSearching, searches >>
lateVars == << lifeVars, hookVars >>
auxVars == << searchVars, suggestVars, pairVars, lateVars >>

vars ==
  << req, hpc, reqFiles, isInitialized, configValid, proc, calls, hist,
     inflight, uploads, stored, results, errors, loopIdx, awaiting, resp,
     now, vfile, vres, auxVars >>

NoResp == [kind |-> "none"]
NoRequest == [contentType |-> "none", parts |-> << >>]
NoValidation == [applied |-> FALSE]
NoSearchRequest == [kind |-> "none"]
NoParams == [kind |-> "none"]
NoCalls == [init |-> 0, embed |-> 0, query |-> 0, failed |-> NoError]
NoScript == [kind |-> "none"]
NoRun == [kind |-> "none"]

\* the variables of the search request, of the frontend and of the paired
\* run while these are not under way
SearchIdle ==
  /\ sreq = NoSearchRequest
  /\ spc = "idle"
  /\ sparams = NoParams
  /\ scalls = NoCalls
  /\ sresp = NoResp
  /\ sstore = {}

SuggestIdle ==
  /\ gquery = << >>
  /\ gresult = [kind |-> "none"]
  /\ gout = [kind |-> "none"]
  /\ grequests = 0

PairIdle ==
  /\ script = NoScript
  /\ phase = "idle"
  /\ runA = NoRun

NoGalleryState == [kind |-> "none"]

LifeIdle ==
  /\ callers = << >>
  /\ initializeCalls = 0
  /\ serving = FALSE

HookIdle ==
  /\ hstate = NoGalleryState
  /\ isSearching = FALSE
  /\ searches = << >>

InitProc ==
  [pc |-> "pending", caught |-> NoError, thrown |-> NoError,
   description |-> "none", embedding |-> "none", filename |-> "none",
   timestamp |-> 0, pointId |-> 0]
InitCalls ==
  [init |-> 0, describe |-> 0, embed |-> 0, store |-> 0, cleanup |-> 0,
   unlink |-> 0, unlinkFailed |-> 0]
InitHist == [procErr |-> NoError, pushedOk |-> 0, pushedFail |-> 0]

Settled == {"returned", "thrown"}

Init ==
  /\ req \in Requests
  /\ hpc = "received"
  /\ reqFiles = << >>
  /\ configValid \in BOOLEAN
  /\ isInitialized \in BOOLEAN
  /\ isInitialized => configValid
  /\ proc = << >>
  /\ calls = << >>
  /\ hist = << >>
  /\ inflight = {}
  /\ uploads = {}
  /\ stored = << >>
  /\ results = << >>
  /\ errors = << >>
  /\ loopIdx = 0
  /\ awaiting = FALSE
  /\ resp = NoResp
  /\ now = 0
  /\ vfile = NoFile
  /\ vres = NoValidation
  /\ SearchIdle
  /\ SuggestIdle
  /\ PairIdle
  /\ LifeIdle
  /\ HookIdle

\* ------------------------------------------------------------------------
\* upload.middleware: adaptiveUpload
\* ------------------------------------------------------------------------
AdaptiveUpload ==
  /\ hpc = "received"
  /\ IF req.contentType # "multipart/form-data"
       THEN /\ resp' = [kind |-> "error", status |-> 400,
                        code |-> "INVALID_CONTENT_TYPE", error |-> NoError]
            /\ hpc' = "responded"
            /\ UNCHANGED << reqFiles, uploads >>
       ELSE LET r == uploadMultiple(req.parts, 1) IN
            IF r = "ok"
              THEN /\ reqFiles' = storedFiles(req.parts)
                   /\ uploads' = { k : k \in 1..Len(req.parts) }
                   /\ hpc' = "handler"
                   /\ resp' = resp
              ELSE \* multer removes what it stored before reporting the error
                   /\ resp' = handleUploadError(r)
                   /\ hpc' = "responded"
                   /\ UNCHANGED << reqFiles, uploads >>
  /\ UNCHANGED << req, isInitialized, configValid, proc, calls, hist, inflight,
                  stored, results, errors, loopIdx, awaiting, now, vfile, vres, auxVars >>

\* ------------------------------------------------------------------------
\* embedding.service: processUploadedImage, as steps between awaits.
\* A step maps the bundle S = [proc, calls, hist, inflight] to the next one.
\* ------------------------------------------------------------------------
\* variant: cleanupTemporaryFile without its try/catch, an unlink error escapes
cleanupTemporaryFile_rethrows(exists, fault) ==
  [threw |-> exists /\ fault = "unlink",
   unlinkAttempted |-> exists,
   removed |-> exists /\ fault = "none"]

\* cleanupTemporaryFile: exists is fs.pathExists(filePath), fault the fault
\* of fs.unlink.  The catch of lines 208-211 swallows every error.
cleanupTemporaryFile(exists, fault) ==
  [threw |-> FALSE,
   unlinkAttempted |-> exists,
   removed |-> exists /\ fault = "none"]

\* variant: the initialisation check sits outside the try block, so that a
\* failed initialisation is thrown without cleanup
onFailure_initOutsideTry(stage) ==
  IF stage = "init" THEN "thrown" ELSE "cleanup_catch"

\* where the try block of processUploadedImage goes when the given stage of
\* it throws: the catch of lines 79-86, which cleans up and rethrows
onFailure(stage) == "cleanup_catch"

\* variant: a failed embedding call is swallowed and the record stored anyway
afterEmbed_ignoresFailure(ok) == "store"

\* processImage: what follows the description call and the embedding call
afterDescribe(ok) == IF ok THEN "embed" ELSE "catch"
afterEmbed(ok) == IF ok THEN "store" ELSE "catch"

\* the catch block is entered with error e thrown by the given stage
enterCatch(S, i, stage, e) ==
  IF onFailure(stage) = "cleanup_catch"
    THEN [S EXCEPT !.proc[i].pc = "cleanup_catch", !.proc[i].caught = e,
                   !.calls[i].cleanup = @ + 1,
                   !.inflight = @ \cup {<< i, "cleanup" >>}]
    ELSE [S EXCEPT !.proc[i].pc = "thrown", !.proc[i].caught = e,
                   !.proc[i].thrown = e]

\* a processing stage failed with error e: remember the first such error
fail(S, i, stage, e) ==
  enterCatch([S EXCEPT !.hist[i].procErr = IF @ = NoError THEN e ELSE @],
             i, stage, e)

startDescribe(S, i) ==
  [S EXCEPT !.proc[i].pc = "describe", !.calls[i].describe = @ + 1,
            !.inflight = @ \cup {<< i, "describe" >>}]

startEmbed(S, i) ==
  [S EXCEPT !.proc[i].pc = "embed", !.calls[i].embed = @ + 1,
            !.inflight = @ \cup {<< i, "embed" >>}]

\* variant: the upsert is issued a second time
startStore_twice(S, i) ==
  [S EXCEPT !.proc[i].pc = "store", !.calls[i].store = @ + 2,
            !.inflight = @ \cup {<< i, "store" >>}]

startStore(S, i) ==
  [S EXCEPT !.proc[i].pc = "store", !.calls[i].store = @ + 1,
            !.inflight = @ \cup {<< i, "store" >>}]

\* processUploadedImage up to its first await
begin(S, i, initialized, cfgValid) ==
  IF ~initialized
    THEN IF ~cfgValid
           THEN fail(S, i, "init", "E_CONFIG_INCOMPLETE")
           ELSE [S EXCEPT !.proc[i].pc = "init", !.calls[i].init = @ + 1,
                          !.inflight = @ \cup {<< i, "init" >>}]
    ELSE startDescribe(S, i)

Bundle == [proc |-> proc, calls |-> calls, hist |-> hist, inflight |-> inflight]

SetBundle(S) ==
  /\ proc' = S.proc
  /\ calls' = S.calls
  /\ hist' = S.hist
  /\ inflight' = S.inflight

done(S, i, call) == [S EXCEPT !.inflight = @ \ {<< i, call >>}]

\* qdrantService.initializeCollection settles
InitializeDone(i, ok) ==
  /\ i \in DOMAIN proc
  /\ proc[i].pc = "init"
  /\ isInitialized' = (isInitialized \/ ok)
  /\ SetBundle(IF ok THEN startDescribe(done(Bundle, i, "init"), i)
               ELSE fail(done(Bundle, i, "init"), i, "init", "E_STORE_UNAVAILABLE"))
  /\ UNCHANGED << req, hpc, reqFiles, configValid, uploads, stored, results,
                  errors, loopIdx, awaiting, resp, now, vfile, vres, auxVars >>

\* the description call settles with a provider status
DescribeDone(i, status) ==
  /\ i \in DOMAIN proc
  /\ proc[i].pc = "describe"
  /\ LET S0 == done(Bundle, i, "describe")
         S1 == IF status = 200
                 THEN [S0 EXCEPT !.proc[i].description = "description"]
                 ELSE [S0 EXCEPT !.hist[i].procErr =
                          IF @ = NoError THEN generateImageDescriptionError(status) ELSE @]
     IN  SetBundle(IF afterDescribe(status = 200) = "embed"
                     THEN startEmbed(S1, i)
                     ELSE fail(S1, i, "describe", generateImageDescriptionError(status)))
  /\ UNCHANGED << req, hpc, reqFiles, isInitialized, configValid, uploads,
                  stored, results, errors, loopIdx, awaiting, resp, now,
                  vfile, vres, auxVars >>

\* the embedding call settles; on success processImage reads the clock,
\* processUploadedImage sets the original filename and calls the store
EmbedDone(i, status) ==
  /\ i \in DOMAIN proc
  /\ proc[i].pc = "embed"
  /\ LET S0 == done(Bundle, i, "embed")
         S1 == IF status = 200
                 THEN [S0 EXCEPT !.proc[i].embedding = "embedding"]
                 ELSE [S0 EXCEPT !.hist[i].procErr =
                          IF @ = NoError THEN generateTextEmbeddingError(status) ELSE @]
         S2 == [S1 EXCEPT !.proc[i].timestamp = now + 1,
                          !.proc[i].filename = reqFiles[i].originalname]
     IN  IF afterEmbed(status = 200) = "store"
           THEN /\ SetBundle(startStore(S2, i))
                /\ now' = now + 1
           ELSE /\ SetBundle(fail(S1, i, "embed", generateTextEmbeddingError(status)))
                /\ now' = now
  /\ UNCHANGED << req, hpc, reqFiles, isInitialized, configValid, uploads,
                  stored, results, errors, loopIdx, awaiting, resp, vfile, vres, auxVars >>

\* qdrantService.storeImageEmbedding settles
StoreDone(i, ok) ==
  /\ i \in DOMAIN proc
  /\ proc[i].pc = "store"
  /\ LET S0 == done(Bundle, i, "store") IN
     IF ok
       THEN /\ stored' = Append(stored,
                           [path |-> reqFiles[i].path,
                            description |-> proc[i].description,
                            embedding |-> proc[i].embedding,
                            filename |-> proc[i].filename,
                            timestamp |-> proc[i].timestamp])
            /\ SetBundle([S0 EXCEPT !.proc[i].pc = "cleanup_try",
                                    !.proc[i].pointId = Len(stored) + 1,
                                    !.calls[i].cleanup = @ + 1,
                                    !.inflight = @ \cup {<< i, "cleanup" >>}])
       ELSE /\ stored' = stored
            /\ SetBundle(fail(S0, i, "store", "E_STORE_UNAVAILABLE"))
  /\ UNCHANGED << req, hpc, reqFiles, isInitialized, configValid, uploads,
                  results, errors, loopIdx, awaiting, resp, now, vfile, vres, auxVars >>

\* cleanupTemporaryFile settles, in the try block or in the catch block
CleanupDone(i, fault) ==
  /\ i \in DOMAIN proc
  /\ proc[i].pc \in {"cleanup_try", "cleanup_catch"}
  /\ LET r == cleanupTemporaryFile(reqFiles[i].path \in uploads, fault)
         S0 == [done(Bundle, i, "cleanup") EXCEPT
                  !.calls[i].unlink = IF r.unlinkAttempted THEN @ + 1 ELSE @,
                  !.calls[i].unlinkFailed =
                     IF r.unlinkAttempted /\ ~r.removed THEN @ + 1 ELSE @]
     IN  /\ uploads' = IF r.removed THEN uploads \ {reqFiles[i].path} ELSE uploads
         /\ SetBundle(
              IF proc[i].pc = "cleanup_try"
                THEN IF r.threw
                       THEN enterCatch(S0, i, "cleanup", "E_UNLINK")
                       ELSE [S0 EXCEPT !.proc[i].pc = "returned"]
                ELSE [S0 EXCEPT !.proc[i].pc = "thrown",
                                !.proc[i].thrown =
                                   IF r.threw THEN "E_UNLINK" ELSE proc[i].caught])
  /\ UNCHANGED << req, hpc, reqFiles, isInitialized, configValid, stored,
                  results, errors, loopIdx, awaiting, resp, now, vfile, vres, auxVars >>

\* the value processUploadedImage returns for file i
resultOf(p) ==
  [success |-> TRUE, pointId |-> p.pointId, filename |-> p.filename,
   description |-> p.description, timestamp |-> p.timestamp]

\* ------------------------------------------------------------------------
\* upload.controller: uploadImages
\* ------------------------------------------------------------------------
\* the first error validateUploadedFile throws over the files, "ok" if none
RECURSIVE validateFiles(_, _)
validateFiles(files, k) ==
  IF k > Len(files) THEN "ok"
  ELSE IF validateUploadedFile(files[k]) # "ok" THEN validateUploadedFile(files[k])
  ELSE validateFiles(files, k + 1)

UploadImages ==
  /\ hpc = "handler"
  /\ LET files == reqFiles
         n == Len(files)
         S0 == [proc |-> [k \in 1..n |-> InitProc],
                calls |-> [k \in 1..n |-> InitCalls],
                hist |-> [k \in 1..n |-> InitHist],
                inflight |-> {}]
     IN
     IF n = 0
       THEN /\ resp' = [kind |-> "error", status |-> 400, code |-> "NO_FILES",
                        error |-> NoError]
            /\ hpc' = "responded"
            /\ UNCHANGED << proc, calls, hist, inflight >>
     ELSE IF validateFiles(files, 1) # "ok"
       THEN \* thrown inside the try, handed to errorHandler by next(error)
            /\ resp' = errorHandler(validateFiles(files, 1))
            /\ hpc' = "responded"
            /\ UNCHANGED << proc, calls, hist, inflight >>
     ELSE IF n = 1
       THEN /\ hpc' = "single"
            /\ SetBundle(begin(S0, 1, isInitialized, configValid))
            /\ resp' = resp
       ELSE /\ hpc' = "batch"
            /\ SetBundle(S0)
            /\ resp' = resp
  /\ UNCHANGED << req, reqFiles, isInitialized, configValid, uploads, stored,
                  results, errors, loopIdx, awaiting, now, vfile, vres, auxVars >>

\* the await of the single-file branch resumes
SingleRespond ==
  /\ hpc = "single"
  /\ proc[1].pc \in Settled
  /\ resp' = IF proc[1].pc = "returned"
               THEN [kind |-> "single", status |-> 200, data |-> resultOf(proc[1])]
               ELSE errorHandler(proc[1].thrown)
  /\ hpc' = "responded"
  /\ UNCHANGED << req, reqFiles, isInitialized, configValid, proc, calls, hist,
                  inflight, uploads, stored, results, errors, loopIdx,
                  awaiting, now, vfile, vres, auxVars >>

\* ------------------------------------------------------------------------
\* embedding.service: processMultipleImages
\* ------------------------------------------------------------------------
\* variant: processUploadedImage is called without await
awaitResumes_noAwait(pc) == TRUE

\* the await of line 104 resumes once the promise of the file has settled
awaitResumes(pc) == pc \in Settled

\* variant: the inner catch rethrows store faults, aborting the batch
innerCatch_storeFatal(e) == e # "E_STORE_UNAVAILABLE"

\* variant: the catch of lines 106-112 logs the failure but does not record it
accumulate_dropsFailure(acc, file, p) ==
  IF p.pc = "returned"
    THEN [acc EXCEPT !.results = Append(@, [success |-> TRUE, pointId |-> p.pointId,
                                             filename |-> p.filename,
                                             description |-> p.description,
                                             timestamp |-> p.timestamp])]
    ELSE acc

\* the catch of lines 106-112 takes every error processUploadedImage throws
innerCatch(e) == TRUE

\* variant: the batch stamps the item again when it records it
accumulate_restamps(acc, file, p) ==
  IF p.pc = "returned"
    THEN [acc EXCEPT !.results = Append(@, [success |-> TRUE, pointId |-> p.pointId,
                                             filename |-> p.filename,
                                             description |-> p.description,
                                             timestamp |-> p.timestamp + 1])]
    ELSE [acc EXCEPT !.errors = Append(@, [filename |-> file.originalname,
                                            error |-> p.thrown])]

\* lines 103-112: the outcome of one file goes to results or to errors
accumulate(acc, file, p) ==
  IF p.pc = "returned"
    THEN [acc EXCEPT !.results = Append(@, resultOf(p))]
    ELSE [acc EXCEPT !.errors = Append(@, [filename |-> file.originalname,
                                            error |-> p.thrown])]

\* the envelope returned by lines 117-122
envelope(rs, es) ==
  [successful |-> rs, failed |-> es,
   totalProcessed |-> Len(rs), totalFailed |-> Len(es)]

\* the loop takes the next file and calls processUploadedImage on it
BatchDispatch ==
  /\ hpc = "batch"
  /\ ~awaiting
  /\ loopIdx < Len(reqFiles)
  /\ loopIdx' = loopIdx + 1
  /\ awaiting' = TRUE
  /\ SetBundle(begin(Bundle, loopIdx + 1, isInitialized, configValid))
  /\ UNCHANGED << req, hpc, reqFiles, isInitialized, configValid, uploads,
                  stored, results, errors, resp, now, vfile, vres, auxVars >>

\* the await resumes and the outcome of the file is recorded; an error the
\* inner catch did not take would leave the loop through the catch of lines
\* 123-126 and the catch of uploadImages, which calls next(error)
BatchResume ==
  /\ hpc = "batch"
  /\ awaiting
  /\ awaitResumes(proc[loopIdx].pc)
  /\ awaiting' = FALSE
  /\ IF proc[loopIdx].pc = "returned" \/ innerCatch(proc[loopIdx].thrown)
       THEN LET acc == accumulate([results |-> results, errors |-> errors],
                                  reqFiles[loopIdx], proc[loopIdx])
            IN  /\ results' = acc.results
                /\ errors' = acc.errors
                /\ hist' = [hist EXCEPT
                     ![loopIdx].pushedOk = @ + (Len(acc.results) - Len(results)),
                     ![loopIdx].pushedFail = @ + (Len(acc.errors) - Len(errors))]
                /\ UNCHANGED << hpc, resp >>
       ELSE /\ resp' = errorHandler(proc[loopIdx].thrown)
            /\ hpc' = "responded"
            /\ UNCHANGED << results, errors, hist >>
  /\ UNCHANGED << req, reqFiles, isInitialized, configValid, proc, calls,
                  inflight, uploads, stored, loopIdx, now, vfile, vres, auxVars >>

\* the loop is over: the envelope is returned and the controller answers
BatchRespond ==
  /\ hpc = "batch"
  /\ ~awaiting
  /\ loopIdx = Len(reqFiles)
  /\ LET result == envelope(results, errors) IN
     resp' = [kind |-> "batch",
              status |-> IF result.totalFailed > 0 THEN 207 ELSE 200,
              data |-> result]
  /\ hpc' = "responded"
  /\ UNCHANGED << req, reqFiles, isInitialized, configValid, proc, calls, hist,
                  inflight, uploads, stored, results, errors, loopIdx,
                  awaiting, now, vfile, vres, auxVars >>

Next ==
  \/ AdaptiveUpload
  \/ UploadImages
  \/ SingleRespond
  \/ BatchDispatch
  \/ BatchResume
  \/ BatchRespond
  \/ \E i \in DOMAIN proc :
       \/ \E ok \in BOOLEAN : InitializeDone(i, ok)
       \/ \E status \in ProviderStatuses : DescribeDone(i, status)
       \/ \E status \in ProviderStatuses : EmbedDone(i, status)
       \/ \E ok \in BOOLEAN : StoreDone(i, ok)
       \/ \E fault \in CleanupFaults : CleanupDone(i, fault)

Spec == Init /\ [][Next]_vars

\* ------------------------------------------------------------------------
\* validateUploadedFile and errorHandler applied to one file on their own
\* ------------------------------------------------------------------------
InitValidate ==
  /\ vfile \in ValidateFiles
  /\ vres = NoValidation
  /\ req = NoRequest
  /\ hpc = "idle"
  /\ reqFiles = << >>
  /\ configValid = TRUE
  /\ isInitialized = FALSE
  /\ proc = << >>
  /\ calls = << >>
  /\ hist = << >>
  /\ inflight = {}
  /\ uploads = {}
  /\ stored = << >>
  /\ results = << >>
  /\ errors = << >>
  /\ loopIdx = 0
  /\ awaiting = FALSE
  /\ resp = NoResp
  /\ now = 0
  /\ SearchIdle
  /\ SuggestIdle
  /\ PairIdle
  /\ LifeIdle
  /\ HookIdle

\* uploadImages lines 36-38 and 67-69 on one file: validate, and on a throw
\* hand the error to errorHandler
ValidateOne ==
  /\ ~vres.applied
  /\ LET r == validateUploadedFile(vfile) IN
     vres' = [applied |-> TRUE, outcome |-> r,
              filtered |-> IF vfile = NoFile THEN FALSE ELSE fileFilter(vfile),
              response |-> IF r = "ok" THEN NoResp ELSE errorHandler(r)]
  /\ UNCHANGED << req, hpc, reqFiles, isInitialized, configValid, proc, calls,
                  hist, inflight, uploads, stored, results, errors, loopIdx,
                  awaiting, resp, now, vfile, auxVars >>

NextValidate == ValidateOne

SpecValidate == InitValidate /\ [][NextValidate]_vars

\* ------------------------------------------------------------------------
\* JavaScript values of a JSON body.  Numbers are kept in hundredths
\* (JsNum(70) is 0.7, JsNum(1000) is 10); strings are character sequences.
\* ------------------------------------------------------------------------
JsUndefined == [t |-> "undefined"]
JsNull == [t |-> "null"]
JsNum(v) == [t |-> "num", v |-> v]
JsStr(s) == [t |-> "str", s |-> s]
JsBool(b) == [t |-> "bool", b |-> b]

\* result of parseInt / parseFloat: a number, or NaN
NaN == [ok |-> FALSE, v |-> 0]
Number(v) == [ok |-> TRUE, v |-> v]

Whitespace == {" ", "\t", "\n"}
Digits == {"0", "1", "2", "3", "4", "5", "6", "7", "8", "9"}

digitValue(c) ==
  CASE c = "0" -> 0 [] c = "1" -> 1 [] c = "2" -> 2 [] c = "3" -> 3
    [] c = "4" -> 4 [] c = "5" -> 5 [] c = "6" -> 6 [] c = "7" -> 7
    [] c = "8" -> 8 [] c = "9" -> 9

RECURSIVE skipWhitespace(_)
skipWhitespace(s) ==
  IF s # << >> /\ Head(s) \in Whitespace THEN skipWhitespace(Tail(s)) ELSE s

RECURSIVE dropTrailingWhitespace(_)
dropTrailingWhitespace(s) ==
  IF s # << >> /\ s[Len(s)] \in Whitespace
    THEN dropTrailingWhitespace(SubSeq(s, 1, Len(s) - 1))
    ELSE s

\* String.prototype.trim
trim(s) == dropTrailingWhitespace(skipWhitespace(s))

RECURSIVE digitsPrefix(_)
digitsPrefix(s) ==
  IF s # << >> /\ Head(s) \in Digits
    THEN << Head(s) >> \o digitsPrefix(Tail(s))
    ELSE << >>

RECURSIVE digitsValue(_)
digitsValue(ds) ==
  IF ds = << >> THEN 0
  ELSE 10 * digitsValue(SubSeq(ds, 1, Len(ds) - 1)) + digitValue(ds[Len(ds)])

\* sign and unsigned rest of a numeric literal
literalSign(s) == IF s # << >> /\ Head(s) = "-" THEN -1 ELSE 1
literalBody(s) == IF s # << >> /\ Head(s) \in {"-", "+"} THEN Tail(s) ELSE s

\* parseInt of a string: leading whitespace, a sign, then decimal digits
parseIntString(s) ==
  LET t == skipWhitespace(s)
      ds == digitsPrefix(literalBody(t))
  IN  IF ds = << >> THEN NaN ELSE Number(literalSign(t) * digitsValue(ds))

\* parseFloat of a string, in hundredths (literals of at most two decimals)
parseFloatString(s) ==
  LET t == skipWhitespace(s)
      u == literalBody(t)
      ds == digitsPrefix(u)
      rest == SubSeq(u, Len(ds) + 1, Len(u))
      fs == IF rest # << >> /\ Head(rest) = "." THEN digitsPrefix(Tail(rest)) ELSE << >>
      f1 == IF Len(fs) >= 1 THEN digitValue(fs[1]) ELSE 0
      f2 == IF Len(fs) >= 2 THEN digitValue(fs[2]) ELSE 0
  IN  IF ds = << >> /\ fs = << >> THEN NaN
      ELSE Number(literalSign(t) * (100 * digitsValue(ds) + 10 * f1 + f2))

\* truncation toward zero of a number given in hundredths
truncate(v) == IF v >= 0 THEN v \div 100 ELSE -((-v) \div 100)

\* parseInt(x): x is converted to a string first, so a number loses its
\* fraction and undefined, null and booleans give NaN
parseInt(x) ==
  CASE x.t = "num" -> Number(truncate(x.v))
    [] x.t = "str" -> parseIntString(x.s)
    [] OTHER -> NaN

\* parseFloat(x), in hundredths
parseFloat(x) ==
  CASE x.t = "num" -> Number(x.v)
    [] x.t = "str" -> parseFloatString(x.s)
    [] OTHER -> NaN

\* r || dflt for a number r: NaN and 0 are falsy
orDefault(r, dflt) == IF r.ok /\ r.v # 0 THEN r.v ELSE dflt

\* !x
falsy(x) ==
  \/ x.t \in {"undefined", "null"}
  \/ x.t = "num" /\ x.v = 0
  \/ x.t = "str" /\ x.s = << >>
  \/ x.t = "bool" /\ ~x.b

Min(a, b) == IF a <= b THEN a ELSE b
Max(a, b) == IF a >= b THEN a ELSE b

\* ------------------------------------------------------------------------
\* upload.controller: queryImages, the checks and the normalisation
\* ------------------------------------------------------------------------
\* const { query, limit = 10, scoreThreshold = 0.7 } = req.body
defaulted(x, dflt) == IF x = JsUndefined THEN dflt ELSE x

\* variant: the query is not trimmed before its length is tested
queryInvalid_noTrim(query) ==
  falsy(query) \/ query.t # "str" \/ Len(query.s) = 0

\* the condition of line 87
queryInvalid(query) ==
  falsy(query) \/ query.t # "str" \/ Len(trim(query.s)) = 0

\* variant: the lower clamp Math.max(..., 1) is missing
searchLimit_noLowerClamp(limit) ==
  Min(orDefault(parseInt(defaulted(limit, JsNum(1000))), 10), 50)

\* line 96: Math.min(Math.max(parseInt(limit) || 10, 1), 50)
searchLimit(limit) ==
  Min(Max(orDefault(parseInt(defaulted(limit, JsNum(1000))), 10), 1), 50)

\* variant: the upper clamp Math.min(..., 1) is missing
threshold_noUpperClamp(scoreThreshold) ==
  Max(orDefault(parseFloat(defaulted(scoreThreshold, JsNum(70))), 70), 0)

\* line 97: Math.min(Math.max(parseFloat(scoreThreshold) || 0.7, 0), 1),
\* in hundredths
threshold(scoreThreshold) ==
  Min(Max(orDefault(parseFloat(defaulted(scoreThreshold, JsNum(70))), 70), 0), 100)

\* ------------------------------------------------------------------------
\* db/qdrant: searchSimilarImages, the ranked answer of the vector store
\* ------------------------------------------------------------------------
RECURSIVE rankDescending(_)
rankDescending(S) ==
  IF S = {} THEN << >>
  ELSE LET m == CHOOSE r \in S :
                  \A o \in S : r.score > o.score \/ (r.score = o.score /\ r.id <= o.id)
       IN  << m >> \o rankDescending(S \ {m})

searchSimilarImages(records, limit, scoreThreshold) ==
  LET ranked == rankDescending({ r \in records : r.score >= scoreThreshold })
  IN  SubSeq(ranked, 1, Min(limit, Len(ranked)))

\* ------------------------------------------------------------------------
\* embedding.service: searchImages
\* ------------------------------------------------------------------------
\* variant: the result list is cut to the first element and totalFound
\* reports the limit
searchImagesResult_cut(queryText, rs, limit, scoreThreshold) ==
  [query |-> queryText, results |-> SubSeq(rs, 1, Min(1, Len(rs))),
   totalFound |-> limit,
   searchParams |-> [limit |-> limit, scoreThreshold |-> scoreThreshold]]

\* the value of lines 157-165
searchImagesResult(queryText, rs, limit, scoreThreshold) ==
  [query |-> queryText, results |-> rs, totalFound |-> Len(rs),
   searchParams |-> [limit |-> limit, scoreThreshold |-> scoreThreshold]]

\* variant: the catch answers a failed search with an empty result
searchImagesCatch_swallows(e) ==
  [kind |-> "return",
   value |-> [query |-> << >>, results |-> << >>, totalFound |-> 0,
              searchParams |-> [limit |-> 10, scoreThreshold |-> 70]]]

\* the catch of lines 166-169 logs and rethrows
searchImagesCatch(e) == [kind |-> "throw", error |-> e]

\* queryImages lines 107-116: the answer to what searchImages did
queryImagesRespond(outcome) ==
  IF outcome.kind = "return"
    THEN [kind |-> "search", status |-> 200, data |-> outcome.value]
    ELSE errorHandler(outcome.error)

\* ------------------------------------------------------------------------
\* Inputs of a search request
\* ------------------------------------------------------------------------
SearchQueries ==
  { JsUndefined, JsNull, JsNum(0), JsNum(500), JsBool(TRUE),
    JsStr(<< >>), JsStr(<< " ", "\t", " " >>),
    JsStr(<< "c", "a", "t" >>),
    JsStr(<< " ", "\t", "r", "e", "d", " ", "c", "a", "r", " " >>) }

SearchLimits ==
  { JsUndefined, JsNull, JsNum(0), JsNum(-500), JsNum(100), JsNum(500),
    JsNum(200), JsNum(370), JsNum(5000), JsNum(5100), JsNum(100000),
    JsStr(<< "a", "b", "c" >>), JsStr(<< "2", "0" >>),
    JsStr(<< "-", "3" >>), JsStr(<< " ", "7", "p", "x" >>) }

SearchThresholds ==
  { JsUndefined, JsNull, JsNum(-100), JsNum(200), JsNum(0), JsNum(50),
    JsNum(70), JsNum(92), JsNum(100),
    JsStr(<< "a", "b", "c" >>), JsStr(<< "0", ".", "5" >>),
    JsStr(<< ".", "9" >>) }

\* the records the store may hold, with their similarity to the query
StoreRecordPool ==
  { [id |-> 1, score |-> 92], [id |-> 2, score |-> 50],
    [id |-> 3, score |-> 70], [id |-> 4, score |-> 92] }

SearchRequests ==
  { [kind |-> "query", query |-> q, limit |-> l, scoreThreshold |-> t] :
      q \in SearchQueries, l \in SearchLimits, t \in SearchThresholds }

\* ------------------------------------------------------------------------
\* POST /api/query: queryImages and searchImages, as steps between awaits
\* ------------------------------------------------------------------------
UploadIdle ==
  /\ req = NoRequest
  /\ hpc = "idle"
  /\ reqFiles = << >>
  /\ proc = << >>
  /\ calls = << >>
  /\ hist = << >>
  /\ inflight = {}
  /\ uploads = {}
  /\ stored = << >>
  /\ results = << >>
  /\ errors = << >>
  /\ loopIdx = 0
  /\ awaiting = FALSE
  /\ resp = NoResp
  /\ now = 0

uploadVars ==
  << req, hpc, reqFiles, proc, calls, hist, inflight, uploads, stored,
     results, errors, loopIdx, awaiting, resp, now >>

validateVars == << vfile, vres >>

InitSearch ==
  /\ sreq \in SearchRequests
  /\ sstore \in SUBSET StoreRecordPool
  /\ spc = "received"
  /\ sparams = NoParams
  /\ scalls = NoCalls
  /\ sresp = NoResp
  /\ configValid \in BOOLEAN
  /\ isInitialized \in BOOLEAN
  /\ isInitialized => configValid
  /\ UploadIdle
  /\ vfile = NoFile
  /\ vres = NoValidation
  /\ SuggestIdle
  /\ PairIdle
  /\ LifeIdle
  /\ HookIdle

\* a step of searchImages failed with error e: its catch, then the
\* controller's answer
SearchFails(e) ==
  /\ sresp' = queryImagesRespond(searchImagesCatch(e))
  /\ spc' = "responded"

\* the request reaches queryImages, which rejects it or calls searchImages;
\* searchImages runs up to its first await
QueryImages ==
  /\ spc = "received"
  /\ IF queryInvalid(sreq.query)
       THEN /\ sresp' = [kind |-> "error", status |-> 400,
                         code |-> "INVALID_QUERY", error |-> NoError]
            /\ spc' = "responded"
            /\ UNCHANGED << sparams, scalls >>
       ELSE /\ sparams' = [kind |-> "params", query |-> trim(sreq.query.s),
                           limit |-> searchLimit(sreq.limit),
                           scoreThreshold |-> threshold(sreq.scoreThreshold)]
            /\ IF ~isInitialized
                 THEN IF ~configValid
                        THEN /\ SearchFails("E_CONFIG_INCOMPLETE")
                             /\ scalls' = [scalls EXCEPT !.failed = "E_CONFIG_INCOMPLETE"]
                        ELSE /\ spc' = "init"
                             /\ scalls' = [scalls EXCEPT !.init = @ + 1]
                             /\ sresp' = sresp
                 ELSE /\ spc' = "embed"
                      /\ scalls' = [scalls EXCEPT !.embed = @ + 1]
                      /\ sresp' = sresp
  /\ UNCHANGED << sreq, sstore, isInitialized, configValid, uploadVars,
                  validateVars, suggestVars, pairVars, lateVars >>

\* qdrantService.initializeCollection settles for the search
SearchInitializeDone(ok) ==
  /\ spc = "init"
  /\ isInitialized' = (isInitialized \/ ok)
  /\ IF ok
       THEN /\ spc' = "embed"
            /\ scalls' = [scalls EXCEPT !.embed = @ + 1]
            /\ sresp' = sresp
       ELSE /\ SearchFails("E_STORE_UNAVAILABLE")
            /\ scalls' = [scalls EXCEPT !.failed = "E_STORE_UNAVAILABLE"]
  /\ UNCHANGED << sreq, sstore, sparams, configValid, uploadVars,
                  validateVars, suggestVars, pairVars, lateVars >>

\* the embedding call of processSearchQuery settles
SearchEmbedDone(status) ==
  /\ spc = "embed"
  /\ IF status = 200
       THEN /\ spc' = "query"
            /\ scalls' = [scalls EXCEPT !.query = @ + 1]
            /\ sresp' = sresp
       ELSE /\ SearchFails(generateTextEmbeddingError(status))
            /\ scalls' = [scalls EXCEPT !.failed = generateTextEmbeddingError(status)]
  /\ UNCHANGED << sreq, sstore, sparams, isInitialized, configValid,
                  uploadVars, validateVars, suggestVars, pairVars, lateVars >>

\* qdrantService.searchSimilarImages settles
SearchQueryDone(ok) ==
  /\ spc = "query"
  /\ IF ok
       THEN /\ sresp' = queryImagesRespond(
                 [kind |-> "return",
                  value |-> searchImagesResult(
                              sparams.query,
                              searchSimilarImages(sstore, sparams.limit,
                                                  sparams.scoreThreshold),
                              sparams.limit, sparams.scoreThreshold)])
            /\ spc' = "responded"
            /\ scalls' = scalls
       ELSE /\ SearchFails("E_STORE_UNAVAILABLE")
            /\ scalls' = [scalls EXCEPT !.failed = "E_STORE_UNAVAILABLE"]
  /\ UNCHANGED << sreq, sstore, sparams, isInitialized, configValid,
                  uploadVars, validateVars, suggestVars, pairVars, lateVars >>

\* statuses the embedding provider answers a search with: those of the
\* upload and the two others generateTextEmbedding maps (401, 404)
SearchProviderStatuses == ProviderStatuses \cup {401, 404}

NextSearch ==
  \/ QueryImages
  \/ \E ok \in BOOLEAN : SearchInitializeDone(ok)
  \/ \E status \in SearchProviderStatuses : SearchEmbedDone(status)
  \/ \E ok \in BOOLEAN : SearchQueryDone(ok)

SpecSearch == InitSearch /\ [][NextSearch]_vars

\* ------------------------------------------------------------------------
\* frontend, useGallery.ts: searchWithSuggestions and
\* generateSearchSuggestions.  Strings are character sequences.
\* ------------------------------------------------------------------------
UpperCase ==
  << "A", "B", "C", "D", "E", "F", "G", "H", "I", "J", "K", "L", "M",
     "N", "O", "P", "Q", "R", "S", "T", "U", "V", "W", "X", "Y", "Z" >>
LowerCase ==
  << "a", "b", "c", "d", "e", "f", "g", "h", "i", "j", "k", "l", "m",
     "n", "o", "p", "q", "r", "s", "t", "u", "v", "w", "x", "y", "z" >>

lowerChar(c) ==
  IF \E i \in DOMAIN UpperCase : UpperCase[i] = c
    THEN LowerCase[CHOOSE i \in DOMAIN UpperCase : UpperCase[i] = c]
    ELSE c

\* String.prototype.toLowerCase
toLowerCase(s) == [k \in DOMAIN s |-> lowerChar(s[k])]

\* String.prototype.split(' '): the pieces between single spaces, empty
\* pieces included
RECURSIVE split(_)
split(s) ==
  IF \A k \in DOMAIN s : s[k] # " "
    THEN << s >>
    ELSE LET k == CHOOSE i \in DOMAIN s :
                    s[i] = " " /\ \A j \in 1..(i - 1) : s[j] # " "
         IN  << SubSeq(s, 1, k - 1) >> \o split(SubSeq(s, k + 1, Len(s)))

\* [...new Set(xs)]: the first occurrence of every element, in order
RECURSIVE dedupe(_)
dedupe(xs) ==
  IF xs = << >> THEN << >>
  ELSE LET front == dedupe(SubSeq(xs, 1, Len(xs) - 1))
           last == xs[Len(xs)]
       IN  IF \E k \in DOMAIN front : front[k] = last
             THEN front
             ELSE Append(front, last)

\* variant: slice(0) instead of slice(0, 5), nothing is cut
slice_uncapped(xs, n) == xs

\* Array.prototype.slice(0, n)
slice(xs, n) == SubSeq(xs, 1, Min(n, Len(xs)))

\* variant: only four terms are pushed before the words of the query
FixedTerms_four ==
  << << "l", "a", "n", "d", "s", "c", "a", "p", "e" >>,
     << "p", "e", "o", "p", "l", "e" >>,
     << "n", "a", "t", "u", "r", "e" >>,
     << "c", "i", "t", "y" >> >>

\* the six terms pushed by lines 557-562, in that order
FixedTerms ==
  << << "l", "a", "n", "d", "s", "c", "a", "p", "e" >>,
     << "p", "e", "o", "p", "l", "e" >>,
     << "n", "a", "t", "u", "r", "e" >>,
     << "c", "i", "t", "y" >>,
     << "s", "u", "n", "s", "e", "t" >>,
     << "o", "c", "e", "a", "n" >> >>

\* the test of line 566
longWord(word) == Len(word) > 3

\* variant: the words of the query are pushed before the fixed terms
pushSuggestions_wordsFirst(words) == SelectSeq(words, longWord) \o FixedTerms

\* lines 557-569: the array after the pushes
pushSuggestions(words) == FixedTerms \o SelectSeq(words, longWord)

generateSearchSuggestions(originalQuery) ==
  LET words == split(toLowerCase(originalQuery))
  IN  slice(dedupe(pushSuggestions(words)), 5)

\* variant: suggestions are attached to every result
searchWithSuggestions_always(query, result) ==
  [kind |-> "result", success |-> result.success,
   hasData |-> result.hasData, totalFound |-> result.totalFound,
   hasSuggestions |-> TRUE,
   suggestions |-> generateSearchSuggestions(query)]

\* lines 534-548: what searchWithSuggestions returns for the result of
\* searchImages
searchWithSuggestions(query, result) ==
  IF result.success /\ result.hasData /\ result.totalFound = 0
    THEN [kind |-> "result", success |-> result.success,
          hasData |-> result.hasData, totalFound |-> result.totalFound,
          hasSuggestions |-> TRUE,
          suggestions |-> generateSearchSuggestions(query)]
    ELSE [kind |-> "result", success |-> result.success,
          hasData |-> result.hasData, totalFound |-> result.totalFound,
          hasSuggestions |-> FALSE, suggestions |-> << >>]

\* ------------------------------------------------------------------------
\* Inputs of the frontend search
\* ------------------------------------------------------------------------
\* bound: the number of space-separated words of a query
MaxWords == 2

WordPool ==
  { << "z", "z", "q", "q", "x", "x" >>,
    << "c", "a", "t" >>,
    << "c", "i", "t", "y" >>,
    << "N", "a", "t", "u", "r", "e" >>,
    << "o", "c", "e", "a", "n" >>,
    << "B", "l", "u", "e" >>,
    << >> }

RECURSIVE QueriesOf(_)
QueriesOf(n) ==
  IF n = 0 THEN { << >> }
  ELSE IF n = 1 THEN WordPool
  ELSE { q \o << " " >> \o w : q \in QueriesOf(n - 1), w \in WordPool }

SuggestQueries == UNION { QueriesOf(n) : n \in 0..MaxWords }

\* what searchImages resolves to: a failure, a success without data, a
\* success with no match, a success with matches
SearchOutcomes ==
  { [kind |-> "result", success |-> FALSE, hasData |-> FALSE, totalFound |-> 0],
    [kind |-> "result", success |-> TRUE, hasData |-> FALSE, totalFound |-> 0],
    [kind |-> "result", success |-> TRUE, hasData |-> TRUE, totalFound |-> 0],
    [kind |-> "result", success |-> TRUE, hasData |-> TRUE, totalFound |-> 2] }

Pending == [kind |-> "none"]
InFlight == [kind |-> "inflight"]

InitSuggest ==
  /\ gquery \in SuggestQueries
  /\ gresult = Pending
  /\ gout = Pending
  /\ grequests = 0
  /\ isInitialized = FALSE
  /\ configValid = TRUE
  /\ UploadIdle
  /\ vfile = NoFile
  /\ vres = NoValidation
  /\ SearchIdle
  /\ PairIdle
  /\ LifeIdle
  /\ HookIdle

\* lines 534 and 452: searchWithSuggestions calls searchImages, which posts
\* the one request to /api/query
SearchImagesCalled ==
  /\ gresult = Pending
  /\ gout = Pending
  /\ gresult' = InFlight
  /\ grequests' = grequests + 1
  /\ UNCHANGED << gquery, gout, isInitialized, configValid, uploadVars,
                  validateVars, searchVars, pairVars, lateVars >>

\* line 534: the awaited searchImages resolves
SearchImagesSettles(result) ==
  /\ gresult = InFlight
  /\ gresult' = result
  /\ UNCHANGED << gquery, gout, grequests, isInitialized, configValid,
                  uploadVars, validateVars, searchVars, pairVars, lateVars >>

\* lines 536-548: searchWithSuggestions resumes and returns;
\* generateSearchSuggestions is synchronous and issues no request
SearchWithSuggestionsReturns ==
  /\ gresult \notin {Pending, InFlight}
  /\ gout = Pending
  /\ gout' = searchWithSuggestions(gquery, gresult)
  /\ UNCHANGED << gquery, gresult, grequests, isInitialized, configValid,
                  uploadVars, validateVars, searchVars, pairVars, lateVars >>

NextSuggest ==
  \/ SearchImagesCalled
  \/ \E result \in SearchOutcomes : SearchImagesSettles(result)
  \/ SearchWithSuggestionsReturns

SpecSuggest == InitSuggest /\ [][NextSuggest]_vars

\* ------------------------------------------------------------------------
\* One file through processUploadedImage and then, from the same initial
\* state and with the same collaborator answers, through
\* processMultipleImages as a batch of one.  script holds the answers.
\* ------------------------------------------------------------------------
PairScripts ==
  { s \in [initialized : BOOLEAN, configValid : BOOLEAN, initOk : BOOLEAN,
           describe : ProviderStatuses, embed : ProviderStatuses,
           storeOk : BOOLEAN, fault : CleanupFaults] :
      s.initialized => s.configValid }

PairFiles == { storedFiles(<< part >>)[1] : part \in PartKinds }

\* the state in which either path is entered with the one file
PairEntry ==
  /\ isInitialized = script.initialized
  /\ configValid = script.configValid
  /\ proc = << InitProc >>
  /\ calls = << InitCalls >>
  /\ hist = << InitHist >>
  /\ inflight = {}
  /\ uploads = {reqFiles[1].path}
  /\ stored = << >>
  /\ results = << >>
  /\ errors = << >>
  /\ loopIdx = 0
  /\ awaiting = FALSE
  /\ resp = NoResp
  /\ now = 0

InitPair ==
  /\ script \in PairScripts
  /\ phase = "start"
  /\ runA = NoRun
  /\ req = NoRequest
  /\ hpc = "service"
  /\ reqFiles \in { << f >> : f \in PairFiles }
  /\ PairEntry
  /\ vfile = NoFile
  /\ vres = NoValidation
  /\ SearchIdle
  /\ SuggestIdle
  /\ LifeIdle
  /\ HookIdle

\* processUploadedImage is called on the file and runs to its first await
PairProcessUploadedImage ==
  /\ phase = "start"
  /\ phase' = "single"
  /\ SetBundle(begin(Bundle, 1, isInitialized, configValid))
  /\ UNCHANGED << req, hpc, reqFiles, isInitialized, configValid, uploads,
                  stored, results, errors, loopIdx, awaiting, resp, now,
                  vfile, vres, searchVars, suggestVars, lateVars, script, runA >>

\* what the single path did is kept, the initial state is restored and
\* processMultipleImages is called on the list of the one file
PairProcessMultipleImages ==
  /\ phase = "single"
  /\ proc[1].pc \in Settled
  /\ runA' = [kind |-> "run", proc |-> proc[1], calls |-> calls[1],
              stored |-> stored, uploads |-> uploads,
              isInitialized |-> isInitialized]
  /\ phase' = "batch"
  /\ hpc' = "batch"
  /\ isInitialized' = script.initialized
  /\ configValid' = script.configValid
  /\ proc' = << InitProc >>
  /\ calls' = << InitCalls >>
  /\ hist' = << InitHist >>
  /\ inflight' = {}
  /\ uploads' = {reqFiles[1].path}
  /\ stored' = << >>
  /\ results' = << >>
  /\ errors' = << >>
  /\ loopIdx' = 0
  /\ awaiting' = FALSE
  /\ resp' = NoResp
  /\ now' = 0
  /\ UNCHANGED << req, reqFiles, vfile, vres, searchVars, suggestVars, lateVars, script >>

\* the collaborators answer as the script says
PairStep ==
  /\ phase \in {"single", "batch"}
  /\ \/ InitializeDone(1, script.initOk)
     \/ DescribeDone(1, script.describe)
     \/ EmbedDone(1, script.embed)
     \/ StoreDone(1, script.storeOk)
     \/ CleanupDone(1, script.fault)

NextPair ==
  \/ PairProcessUploadedImage
  \/ PairStep
  \/ PairProcessMultipleImages
  \/ BatchDispatch
  \/ BatchResume
  \/ BatchRespond

SpecPair == InitPair /\ [][NextPair]_vars

\* ------------------------------------------------------------------------
\* The service taking one request, an upload or a search
\* ------------------------------------------------------------------------
InitRequest == Init \/ InitSearch

NextRequest == Next \/ NextSearch

SpecRequest == InitRequest /\ [][NextRequest]_vars

\* ------------------------------------------------------------------------
\* The isInitialized flag over the life of the process: the non-blocking
\* initializeServices of app.js and requests that arrive concurrently.
\* callers[1] is the startup initialisation, the others are requests; a
\* request stands for processUploadedImage, searchImages or
\* getDatabaseStats up to the collaborator calls that follow the check of
\* the flag.
\* ------------------------------------------------------------------------
\* bound: the number of requests that may be under way at the same time
MaxCallers == 2

RequestKinds == {"upload", "search", "stats"}

\* a caller before it runs: attempted records a call of initialize(),
\* arrivedFlag the flag it saw, worked and workFlag the issue of its
\* collaborator calls (describe, embed, store, query, stats) and the flag
\* at that moment
NewCaller(kind) ==
  [kind |-> kind, pc |-> "waiting", attempted |-> FALSE,
   arrivedFlag |-> FALSE, worked |-> FALSE, workFlag |-> FALSE]

\* the test `if (!this.isInitialized)` of lines 54, 141 and 179
needsInitialize(flag) == ~flag

\* variant: the flag is set before the collection initialisation is awaited
flagAfterInitializeCollection_early(flag, ok) == TRUE

\* lines 33-35: the flag is set once initializeCollection has resolved
flagAfterInitializeCollection(flag, ok) == flag \/ ok

\* variant: the catch of initializeServices ends the process
startupCatch_exits(e) == "exit"

\* app.js lines 84-94: the catch of initializeServices logs and returns
startupCatch(e) == "logged"

InitLifecycle ==
  /\ callers \in { << NewCaller("startup") >> \o rs : rs \in [1..MaxCallers -> { NewCaller(k) : k \in RequestKinds }] }
  /\ initializeCalls = 0
  /\ serving = FALSE
  /\ isInitialized = FALSE
  /\ configValid \in BOOLEAN
  /\ UploadIdle
  /\ vfile = NoFile
  /\ vres = NoValidation
  /\ SearchIdle
  /\ SuggestIdle
  /\ PairIdle
  /\ HookIdle

\* app.js line 97: initializeServices() runs up to its first await (or
\* into its catch), then the module is exported and the server listens
StartupInitialize ==
  /\ callers[1].pc = "waiting"
  /\ initializeCalls' = initializeCalls + 1
  /\ IF configValid
       THEN /\ callers' = [callers EXCEPT ![1].pc = "init", ![1].attempted = TRUE]
            /\ serving' = TRUE
       ELSE /\ callers' = [callers EXCEPT ![1].pc = startupCatch("E_CONFIG_INCOMPLETE"),
                                          ![1].attempted = TRUE]
            /\ serving' = (startupCatch("E_CONFIG_INCOMPLETE") = "logged")
  /\ UNCHANGED << isInitialized, configValid, uploadVars, validateVars,
                  searchVars, suggestVars, pairVars, hookVars >>

\* a request reaches the service: the flag is tested, then either
\* initialize() is called or the collaborator calls are issued
RequestArrives(c) ==
  /\ serving
  /\ callers[c].pc = "waiting"
  /\ IF needsInitialize(isInitialized)
       THEN /\ initializeCalls' = initializeCalls + 1
            /\ callers' = [callers EXCEPT
                 ![c].arrivedFlag = isInitialized,
                 ![c].attempted = TRUE,
                 ![c].pc = IF configValid THEN "init" ELSE "failed"]
       ELSE /\ initializeCalls' = initializeCalls
            /\ callers' = [callers EXCEPT
                 ![c].arrivedFlag = isInitialized,
                 ![c].pc = "work",
                 ![c].worked = TRUE,
                 ![c].workFlag = isInitialized]
  /\ UNCHANGED << serving, isInitialized, configValid, uploadVars,
                  validateVars, searchVars, suggestVars, pairVars, hookVars >>

\* qdrantService.initializeCollection settles for caller c
InitializeCollectionDone(c, ok) ==
  /\ serving
  /\ callers[c].pc = "init"
  /\ isInitialized' = flagAfterInitializeCollection(isInitialized, ok)
  /\ IF c = 1
       THEN /\ callers' = [callers EXCEPT
                 ![c].pc = IF ok THEN "ok" ELSE startupCatch("E_STORE_UNAVAILABLE")]
            /\ serving' = (ok \/ startupCatch("E_STORE_UNAVAILABLE") = "logged")
       ELSE /\ callers' = [callers EXCEPT
                 ![c].pc = IF ok THEN "work" ELSE "failed",
                 ![c].worked = ok,
                 ![c].workFlag = ok /\ flagAfterInitializeCollection(isInitialized, ok)]
            /\ serving' = serving
  /\ UNCHANGED << initializeCalls, configValid, uploadVars, validateVars,
                  searchVars, suggestVars, pairVars, hookVars >>

\* the collaborator calls of request c settle and the request is answered
RequestDone(c, ok) ==
  /\ serving
  /\ callers[c].pc = "work"
  /\ callers' = [callers EXCEPT ![c].pc = IF ok THEN "ok" ELSE "failed"]
  /\ UNCHANGED << initializeCalls, serving, isInitialized, configValid,
                  uploadVars, validateVars, searchVars, suggestVars,
                  pairVars, hookVars >>

NextLifecycle ==
  \/ StartupInitialize
  \/ \E c \in 2..(MaxCallers + 1) : RequestArrives(c)
  \/ \E c \in 1..(MaxCallers + 1) : \E ok \in BOOLEAN : InitializeCollectionDone(c, ok)
  \/ \E c \in 2..(MaxCallers + 1) : \E ok \in BOOLEAN : RequestDone(c, ok)

SpecLifecycle == InitLifecycle /\ [][NextLifecycle]_vars

\* ------------------------------------------------------------------------
\* frontend: useImageSearch and the part of galleryReducer it drives.
\* The results of the k-th search are the list << k >>, an empty list when
\* it matched nothing.
\* ------------------------------------------------------------------------
\* bound: the number of searches started
MaxSearches == 2

HookQueries ==
  { << "c", "a", "t" >>, << "d", "o", "g" >>, << " ", " " >> }

\* GalleryContext.tsx lines 56-58 and 62: the search part of initialState
initialState ==
  [kind |-> "state", searchResults |-> << >>, searchQuery |-> << >>,
   isLoading |-> FALSE, error |-> "null"]

\* GalleryContext.tsx lines 69-159: the cases of galleryReducer that
\* useImageSearch dispatches
galleryReducer(state, type, payload) ==
  CASE type = "SET_LOADING" -> [state EXCEPT !.isLoading = payload]
    [] type = "SET_SEARCH_RESULTS" ->
         [state EXCEPT !.searchResults = payload, !.error = "null"]
    [] type = "SET_SEARCH_QUERY" -> [state EXCEPT !.searchQuery = payload]
    [] type = "SET_ERROR" -> [state EXCEPT !.error = payload, !.isLoading = FALSE]
    [] OTHER -> state

\* result.data.results of the k-th search
resultsOf(k, result) == IF result.totalFound > 0 THEN << k >> ELSE << >>

\* lines 118-126: the dispatches after the await, for the k-th search
afterSearch(state, k, result) ==
  IF result.success /\ result.hasData
    THEN LET s1 == galleryReducer(state, "SET_SEARCH_RESULTS", resultsOf(k, result))
         IN  IF result.totalFound = 0
               THEN galleryReducer(s1, "SET_ERROR", "no images found")
               ELSE s1
    ELSE galleryReducer(state, "SET_ERROR", "search failed")

InitHook ==
  /\ hstate = initialState
  /\ isSearching = FALSE
  /\ searches = << >>
  /\ isInitialized = FALSE
  /\ configValid = TRUE
  /\ UploadIdle
  /\ vfile = NoFile
  /\ vres = NoValidation
  /\ SearchIdle
  /\ SuggestIdle
  /\ PairIdle
  /\ LifeIdle

\* lines 101-115: searchImages(query) up to its await; a blank query returns
\* at once
HookSearchImages(query) ==
  /\ Len(searches) < MaxSearches
  /\ IF trim(query) = << >>
       THEN UNCHANGED << hstate, isSearching, searches >>
       ELSE /\ isSearching' = TRUE
            /\ hstate' = galleryReducer(galleryReducer(hstate, "SET_LOADING", TRUE),
                                        "SET_SEARCH_QUERY", query)
            /\ searches' = Append(searches,
                             [query |-> query, pc |-> "inflight", result |-> Pending])
  /\ UNCHANGED << isInitialized, configValid, uploadVars, validateVars,
                  searchVars, suggestVars, pairVars, lifeVars >>

\* lines 113-136: the await of the k-th search resumes, the result is
\* dispatched and the finally block clears the flags
HookSearchSettles(k, result) ==
  /\ k \in DOMAIN searches
  /\ searches[k].pc = "inflight"
  /\ searches' = [searches EXCEPT ![k].pc = "settled", ![k].result = result]
  /\ hstate' = galleryReducer(afterSearch(hstate, k, result), "SET_LOADING", FALSE)
  /\ isSearching' = FALSE
  /\ UNCHANGED << isInitialized, configValid, uploadVars, validateVars,
                  searchVars, suggestVars, pairVars, lifeVars >>

NextHook ==
  \/ \E query \in HookQueries : HookSearchImages(query)
  \/ \E k \in 1..MaxSearches : \E result \in SearchOutcomes : HookSearchSettles(k, result)

SpecHook == InitHook /\ [][NextHook]_vars

\* ------------------------------------------------------------------------
\* Properties
\* ------------------------------------------------------------------------
Failed(i) == hist[i].procErr # NoError

\* position of file i among the files that failed
failRank(i) == Cardinality({ j \in 1..i : Failed(j) })

\* C1: when processMultipleImages has returned, every input file was pushed to
\* exactly one of successful and failed, the two lengths add up to the number
\* of input files, totalProcessed is the length of successful and totalFailed
\* the length of failed.
C1_BatchPartition ==
  resp.kind = "batch" =>
    /\ Len(resp.data.successful) + Len(resp.data.failed) = Len(reqFiles)
    /\ resp.data.totalProcessed = Len(resp.data.successful)
    /\ resp.data.totalFailed = Len(resp.data.failed)
    /\ \A i \in DOMAIN reqFiles :
         /\ hist[i].pushedOk + hist[i].pushedFail = 1
         /\ hist[i].pushedOk = 1 <=> ~Failed(i)

C1_Witness ==
  /\ resp.kind = "batch"
  /\ Len(resp.data.successful) >= 1
  /\ Len(resp.data.failed) >= 1

\* C2: once a batch of validated files has been answered, the batch call has
\* not raised (the answer is the batch envelope), every file has been
\* attempted, and every file whose describe, embed or store (or initialisation)
\* failed has one entry in the failure list, in input order, carrying its
\* original filename and the message of its error.
C2_FailureRecordedBatchContinues ==
  (hpc = "responded" /\ Len(proc) >= 2) =>
    /\ resp.kind = "batch"
    /\ \A i \in DOMAIN proc : proc[i].pc \in Settled
    /\ resp.data.failed = errors
    /\ Len(errors) = Cardinality({ i \in DOMAIN proc : Failed(i) })
    /\ \A i \in DOMAIN proc :
         Failed(i) =>
           /\ failRank(i) \in DOMAIN errors
           /\ errors[failRank(i)].filename = reqFiles[i].originalname
           /\ message(errors[failRank(i)].error) = message(hist[i].procErr)

\* three files, the description call of the second times out
C2_Witness ==
  /\ resp.kind = "batch"
  /\ Len(reqFiles) = 3
  /\ calls[2].describe = 1 /\ calls[2].embed = 0
  /\ hist[2].procErr = "E_TIMEOUT"
  /\ Len(resp.data.successful) = 2
  /\ resp.data.failed = << [filename |-> reqFiles[2].originalname, error |-> "E_TIMEOUT"] >>

\* C3: for every file handed to processUploadedImage, cleanupTemporaryFile is
\* never called twice and the file never unlinked twice; when the call has
\* returned or thrown, cleanup was called exactly once and the unlink of the
\* temporary path attempted exactly once, and the path is gone unless that
\* unlink failed.
C3_CleanupExactlyOnce ==
  \A i \in DOMAIN proc :
    /\ calls[i].cleanup <= 1
    /\ calls[i].unlink <= 1
    /\ proc[i].pc \in Settled =>
         /\ calls[i].cleanup = 1
         /\ calls[i].unlink = 1
         /\ calls[i].unlinkFailed = 0 => reqFiles[i].path \notin uploads

\* a file reported as failed in a batch answer whose temporary file is deleted
C3_Witness ==
  /\ resp.kind = "batch"
  /\ \E i \in DOMAIN proc :
       /\ proc[i].pc = "thrown"
       /\ hist[i].pushedFail = 1
       /\ calls[i].cleanup = 1
       /\ reqFiles[i].path \notin uploads

\* C4: a file is started only when every file before it in the input has
\* returned or thrown, and the calls in flight at any moment belong to one
\* file (and are at most one).
C4_StrictlySequential ==
  /\ \A i, j \in DOMAIN proc :
       (i < j /\ proc[j].pc # "pending") => proc[i].pc \in Settled
  /\ \A x, y \in inflight : x[1] = y[1]
  /\ Cardinality(inflight) <= 1

\* the description call of the second file in flight after the first failed
C4_Witness ==
  /\ hpc = "batch"
  /\ << 2, "describe" >> \in inflight
  /\ proc[1].pc = "thrown"

\* C5: every record in the vector store has a description and an embedding;
\* the store is called for a file only after one description call and one
\* embedding call for that file succeeded, and never for a file whose
\* description or embedding call failed.
C5_NoPartialRecord ==
  /\ \A k \in DOMAIN stored :
       stored[k].description # "none" /\ stored[k].embedding # "none"
  /\ \A i \in DOMAIN proc :
       /\ calls[i].store > 0 =>
            /\ proc[i].description # "none" /\ calls[i].describe = 1
            /\ proc[i].embedding # "none" /\ calls[i].embed = 1
       /\ (Failed(i) /\ hist[i].procErr # "E_STORE_UNAVAILABLE") => calls[i].store = 0

\* one file stored and another one whose embedding call failed
C5_Witness ==
  /\ Len(stored) >= 1
  /\ \E i \in DOMAIN proc :
       /\ proc[i].pc = "thrown"
       /\ calls[i].embed = 1
       /\ proc[i].embedding = "none"
       /\ calls[i].store = 0

\* C6: processUploadedImage returns exactly when no processing step failed,
\* and when it throws it throws the first processing error, never the error
\* of the unlink, whether or not deleting the temporary file failed; the
\* single-file answer follows the same outcome.
C6_CleanupFailureKeepsOutcome ==
  /\ \A i \in DOMAIN proc :
       proc[i].pc \in Settled =>
         /\ proc[i].pc = "returned" <=> ~Failed(i)
         /\ proc[i].pc = "thrown" =>
              /\ proc[i].thrown = hist[i].procErr
              /\ proc[i].thrown # "E_UNLINK"
  /\ (hpc = "responded" /\ Len(proc) = 1) =>
       IF Failed(1) THEN resp.kind = "error" /\ resp.error = hist[1].procErr
       ELSE resp.kind = "single"

\* the unlink failed both for a file that succeeded and for one that failed
C6_Witness ==
  \E i, j \in DOMAIN proc :
    /\ proc[i].pc = "returned" /\ calls[i].unlinkFailed = 1
    /\ proc[j].pc = "thrown" /\ calls[j].unlinkFailed = 1

\* C7: once an upload request during which the vector store was unreachable
\* has been answered, the answer is a request-level error, not a batch
\* envelope listing the fault among the per-file failures.
C7_StoreFaultIsRequestLevel ==
  (hpc = "responded" /\ \E i \in DOMAIN hist : hist[i].procErr = "E_STORE_UNAVAILABLE")
    => resp.kind = "error"

\* C8: a multipart request carrying one admissible image under the field name
\* "image" passes the upload middleware and reaches uploadImages.
C8_SingleImageFieldAccepted ==
  ( /\ hpc # "received"
    /\ req.contentType = "multipart/form-data"
    /\ Len(req.parts) = 1
    /\ req.parts[1].fieldname = "image"
    /\ fileFilter(req.parts[1])
    /\ req.parts[1].size <= fileSizeLimit )
    => Len(reqFiles) = 1

\* the MIME types C9 names (image/jpg being the usual alias of image/jpeg)
ClaimedTypes ==
  {"image/jpeg", "image/jpg", "image/png", "image/gif", "image/webp", "image/bmp"}

\* C9: validateUploadedFile throws exactly when the file is absent, larger
\* than 10 MiB, or of a MIME type other than jpeg, png, gif, webp, bmp.
C9_ValidateExactlyWhenInvalid ==
  vres.applied =>
    ( vres.outcome # "ok" <=>
        \/ vfile = NoFile
        \/ vfile.size > 10 * 1024 * 1024
        \/ vfile.mimetype \notin ClaimedTypes )

HasVisible(s) == \E k \in DOMAIN s : s[k] \notin Whitespace

\* t is s without its leading and trailing whitespace
IsTrimmedFormOf(t, s) ==
  \E a \in DOMAIN s : \E b \in a..Len(s) :
    /\ s[a] \notin Whitespace
    /\ s[b] \notin Whitespace
    /\ \A k \in 1..(a - 1) : s[k] \in Whitespace
    /\ \A k \in (b + 1)..Len(s) : s[k] \in Whitespace
    /\ t = SubSeq(s, a, b)

\* the query of the request is missing, not a string, or empty after
\* trimming
QueryUnusable ==
  sreq.query.t # "str" \/ ~HasVisible(sreq.query.s)

InvalidQueryResponse ==
  [kind |-> "error", status |-> 400, code |-> "INVALID_QUERY",
   error |-> NoError]

\* C14: a search request whose query is missing, not a string or empty
\* after trimming is answered 400 INVALID_QUERY without any call to the
\* embedding collaborator or the vector store; a query that is non-empty
\* after trimming is passed to searchImages in trimmed form.
C14_InvalidQueryRejected ==
  (spc \notin {"idle", "received"}) =>
    IF QueryUnusable
      THEN /\ spc = "responded"
           /\ sresp = InvalidQueryResponse
           /\ scalls.init = 0 /\ scalls.embed = 0 /\ scalls.query = 0
      ELSE /\ sresp # InvalidQueryResponse
           /\ IsTrimmedFormOf(sparams.query, sreq.query.s)

C14_Witness ==
  /\ spc = "responded"
  /\ sreq.query = JsStr(<< " ", "\t", " " >>)
  /\ sresp = InvalidQueryResponse
  /\ scalls.embed = 0
  /\ scalls.query = 0

\* C15: whatever limit the request carries, the limit handed to the vector
\* store lies in 1..50, and it is 10 when the request carries none.
C15_LimitClamped ==
  (scalls.query > 0) =>
    /\ sparams.limit >= 1
    /\ sparams.limit <= 50
    /\ (sreq.limit = JsUndefined => sparams.limit = 10)

C15_Witness ==
  /\ scalls.query = 1
  /\ sreq.limit = JsNum(-500)
  /\ sparams.limit = 1

\* C16: whatever scoreThreshold the request carries, the threshold handed to
\* the vector store lies in [0, 1] (0..100 hundredths); it is 0.7 when the
\* request carries none, 0 for -1 and 1 for 2.
C16_ThresholdClamped ==
  (scalls.query > 0) =>
    /\ sparams.scoreThreshold >= 0
    /\ sparams.scoreThreshold <= 100
    /\ (sreq.scoreThreshold = JsUndefined => sparams.scoreThreshold = 70)
    /\ (sreq.scoreThreshold = JsNum(-100) => sparams.scoreThreshold = 0)
    /\ (sreq.scoreThreshold = JsNum(200) => sparams.scoreThreshold = 100)

C16_Witness ==
  /\ scalls.query = 1
  /\ sreq.scoreThreshold = JsNum(200)
  /\ sparams.scoreThreshold = 100

\* the store of the scenario: one record scoring 0.92 and one scoring 0.5
ScenarioStore == { [id |-> 1, score |-> 92], [id |-> 2, score |-> 50] }

\* C17: the results of a successful search are in non-increasing score
\* order, none scores below the effective threshold, and they number at
\* most the effective limit; they are the store's ranked list unchanged and
\* totalFound is its length; threshold 0.7 against records scoring 0.92 and
\* 0.5 returns exactly the 0.92 record.
C17_ResultsRankedAndBounded ==
  (spc = "responded" /\ sresp.kind = "search") =>
    LET rs == sresp.data.results
    IN  /\ \A k \in 1..(Len(rs) - 1) : rs[k].score >= rs[k + 1].score
        /\ \A k \in DOMAIN rs : rs[k].score >= sparams.scoreThreshold
        /\ Len(rs) <= sparams.limit
        /\ rs = searchSimilarImages(sstore, sparams.limit, sparams.scoreThreshold)
        /\ sresp.data.totalFound = Len(rs)
        /\ (sstore = ScenarioStore /\ sparams.scoreThreshold = 70)
             => rs = << [id |-> 1, score |-> 92] >>

C17_Witness ==
  /\ spc = "responded"
  /\ sresp.kind = "search"
  /\ sstore = ScenarioStore
  /\ sparams.limit = 5
  /\ sparams.scoreThreshold = 70
  /\ sresp.data.results = << [id |-> 1, score |-> 92] >>
  /\ sresp.data.totalFound = 1

\* C18: a failure of the embedding call or of the vector-store query (or of
\* the initialisation before them) reaches the request boundary as that
\* error and is never answered as a success; a store answer without
\* matches is a success: 200, results empty, totalFound 0.
C18_FailurePropagatesEmptyIsSuccess ==
  (spc = "responded" /\ ~QueryUnusable) =>
    IF scalls.failed # NoError
      THEN sresp = errorHandler(scalls.failed) /\ sresp.status >= 400
      ELSE /\ sresp.kind = "search"
           /\ sresp.status = 200
           /\ (\A r \in sstore : r.score < sparams.scoreThreshold)
                => (sresp.data.results = << >> /\ sresp.data.totalFound = 0)

C18_Witness ==
  /\ spc = "responded"
  /\ scalls.query = 1
  /\ scalls.failed = "E_STORE_UNAVAILABLE"
  /\ sresp.kind = "error"
  /\ sresp.status >= 500

\* the other half of C18: a search without matches answered as a success
C18_EmptyWitness ==
  /\ spc = "responded"
  /\ sstore # {}
  /\ sresp.kind = "search"
  /\ sresp.status = 200
  /\ sresp.data.results = << >>
  /\ sresp.data.totalFound = 0

\* ------------------------------------------------------------------------
\* Properties of the frontend suggestions (specification SpecSuggest)
\* ------------------------------------------------------------------------
\* the search of the query returned zero results
ZeroResults == gresult.success /\ gresult.hasData /\ gresult.totalFound = 0

\* C19: for every query whose search returns zero results, the suggestions
\* have at most 5 entries and no entry occurs twice.
C19_SuggestionsCappedAndDistinct ==
  (gout # Pending /\ ZeroResults) =>
    /\ gout.hasSuggestions
    /\ Len(gout.suggestions) <= 5
    /\ \A i, j \in DOMAIN gout.suggestions :
         gout.suggestions[i] = gout.suggestions[j] => i = j

C19_Witness ==
  /\ gout # Pending
  /\ ZeroResults
  /\ gquery = << "c", "i", "t", "y", " ", "z", "z", "q", "q", "x", "x" >>
  /\ Len(gout.suggestions) = 5

\* the fixed terms followed by the query's words longer than 3 characters
Concatenation ==
  FixedTerms \o SelectSeq(split(toLowerCase(gquery)), LAMBDA w : Len(w) > 3)

\* the positions of Concatenation that hold the first occurrence of a term
FirstOccurrences ==
  { i \in DOMAIN Concatenation :
      \A j \in 1..(i - 1) : Concatenation[j] # Concatenation[i] }

\* the position of the k-th first occurrence
NthFirstOccurrence(k) ==
  CHOOSE i \in FirstOccurrences :
    Cardinality({ j \in FirstOccurrences : j <= i }) = k

Nature == << "n", "a", "t", "u", "r", "e" >>

\* C20: the suggestions are the first 5 entries of the de-duplicated
\* concatenation of the fixed terms followed by the query's words longer
\* than 3 characters; so they always contain a fixed term, and those of
\* "zzqqxx" contain "nature".
C20_SuggestionsAreFirstFiveOfConcatenation ==
  (gout # Pending /\ gout.hasSuggestions) =>
    /\ Len(gout.suggestions) = Min(5, Cardinality(FirstOccurrences))
    /\ \A k \in DOMAIN gout.suggestions :
         gout.suggestions[k] = Concatenation[NthFirstOccurrence(k)]
    /\ \E k \in DOMAIN gout.suggestions : \E f \in DOMAIN FixedTerms :
         gout.suggestions[k] = FixedTerms[f]
    /\ (gquery = << "z", "z", "q", "q", "x", "x" >>)
         => \E k \in DOMAIN gout.suggestions : gout.suggestions[k] = Nature

C20_Witness ==
  /\ gout # Pending
  /\ gout.hasSuggestions
  /\ gquery = << "z", "z", "q", "q", "x", "x" >>
  /\ \E k \in DOMAIN gout.suggestions : gout.suggestions[k] = Nature

\* ------------------------------------------------------------------------
\* Properties of the paired run (specification SpecPair)
\* ------------------------------------------------------------------------
\* processMultipleImages has returned in the paired run
BatchOfOneReturned == phase = "batch" /\ hpc = "responded"

\* C13: for one file and the same collaborator answers, the batch of one
\* holds the per-item data the single path returned (description, filename,
\* timestamp, store id) or the error it threw, the collaborators were called
\* the same number of times and the store and the uploads directory end the
\* same; only the envelope around the item differs.
C13_SingleAndBatchOfOneAgree ==
  BatchOfOneReturned =>
    /\ calls[1] = runA.calls
    /\ stored = runA.stored
    /\ uploads = runA.uploads
    /\ isInitialized = runA.isInitialized
    /\ resp.kind = "batch"
    /\ IF runA.proc.pc = "returned"
         THEN /\ resp.data.failed = << >>
              /\ Len(resp.data.successful) = 1
              /\ resp.data.successful[1].description = runA.proc.description
              /\ resp.data.successful[1].filename = runA.proc.filename
              /\ resp.data.successful[1].timestamp = runA.proc.timestamp
              /\ resp.data.successful[1].pointId = runA.proc.pointId
         ELSE /\ resp.data.successful = << >>
              /\ Len(resp.data.failed) = 1
              /\ resp.data.failed[1].filename = reqFiles[1].originalname
              /\ resp.data.failed[1].error = runA.proc.thrown

C13_Witness ==
  /\ BatchOfOneReturned
  /\ runA.proc.pc = "returned"
  /\ ~script.initialized
  /\ script.fault = "unlink"
  /\ Len(resp.data.successful) = 1
  /\ resp.data.successful[1].pointId = 1
  /\ calls[1].store = 1

\* ------------------------------------------------------------------------
\* Properties of the answer of POST /api/upload (specification Spec)
\* ------------------------------------------------------------------------
\* the files of the request that reached uploadImages
Supplied == Len(reqFiles)

\* some file of the batch was recorded as failed
SomeFileFailed == resp.data.totalFailed > 0

\* C11: a batch upload (two or more files) is always answered with a 2xx
\* status and the per-item detail: 200 exactly when no file failed, 207
\* exactly when at least one file failed.
C11_BatchAlways2xxWithDetail ==
  (hpc = "responded" /\ Supplied >= 2) =>
    /\ resp.kind = "batch"
    /\ Len(resp.data.successful) + Len(resp.data.failed) = Supplied
    /\ resp.status = 200 <=> ~SomeFileFailed
    /\ resp.status = 207 <=> SomeFileFailed

\* C12: with exactly one file processUploadedImage is applied to it and the
\* answer is its success object or its error, never the batch envelope; the
\* batch envelope is produced exactly when two or more files are supplied.
C12_EnvelopeExactlyForTwoOrMore ==
  (hpc = "responded" /\ Supplied >= 1) =>
    /\ (Supplied = 1) =>
         /\ Len(proc) = 1
         /\ proc[1].pc \in Settled
         /\ resp = IF proc[1].pc = "returned"
                     THEN [kind |-> "single", status |-> 200,
                           data |-> resultOf(proc[1])]
                     ELSE errorHandler(proc[1].thrown)
    /\ (resp.kind = "batch") <=> (Supplied >= 2)

\* C21: a response of searchWithSuggestions carries suggestions only when
\* the search succeeded with zero results (not with one or more results,
\* not after a failed search), and producing them issues no request beyond
\* the one search request.
C21_SuggestionsOnlyOnZeroResults ==
  /\ grequests <= 1
  /\ (gout # Pending) =>
       /\ gout.hasSuggestions <=> ZeroResults
       /\ ~gout.hasSuggestions => gout.suggestions = << >>
       /\ grequests = 1

C21_Witness ==
  /\ gout # Pending
  /\ gresult.success
  /\ gresult.totalFound = 2
  /\ ~gout.hasSuggestions
  /\ grequests = 1

\* the first five fixed terms
FirstFiveFixed == << FixedTerms[1], FixedTerms[2], FixedTerms[3], FixedTerms[4], FixedTerms[5] >>

\* C29: the suggestions do not depend on the query: those of any two
\* queries are equal, they are the first five fixed terms, and a word of
\* the query appears among them only if it is one of those five terms.
C29_SuggestionsIndependentOfQuery ==
  (gout # Pending /\ gout.hasSuggestions) =>
    /\ \A q \in SuggestQueries : generateSearchSuggestions(q) = gout.suggestions
    /\ gout.suggestions = FirstFiveFixed
    /\ \A k \in DOMAIN gout.suggestions :
         \A w \in DOMAIN split(toLowerCase(gquery)) :
           gout.suggestions[k] = split(toLowerCase(gquery))[w]
             => \E f \in 1..5 : FixedTerms[f] = gout.suggestions[k]

C29_Witness ==
  /\ gout # Pending
  /\ gout.hasSuggestions
  /\ gquery = << "B", "l", "u", "e", " ", "z", "z", "q", "q", "x", "x" >>
  /\ gout.suggestions = FirstFiveFixed

\* the error that failed the search mentions "OpenAI" in its message
MentionsOpenAI(e) == includes(message(e), NeedleOpenAI)

\* C27: errorHandler answers every error whose message mentions "OpenAI"
\* with code OPENAI_ERROR and status 502, the mapped provider errors for
\* 401, 429 and 404 included.
C27_OpenAIErrorsAnswered502 ==
  (spc = "responded" /\ scalls.failed # NoError /\ MentionsOpenAI(scalls.failed)) =>
    /\ sresp.code = "OPENAI_ERROR"
    /\ sresp.status = 502

\* the supplied limit is an integer of 1..50 and the supplied threshold a
\* number of [0, 1]
SuppliedInRange ==
  /\ sreq.limit.t = "num"
  /\ sreq.limit.v % 100 = 0
  /\ sreq.limit.v >= 100
  /\ sreq.limit.v <= 5000
  /\ sreq.scoreThreshold.t = "num"
  /\ sreq.scoreThreshold.v >= 0
  /\ sreq.scoreThreshold.v <= 100

\* C28: a limit that is already an integer of 1..50 and a threshold that is
\* already in [0, 1] (the boundaries 1, 50, 0 and 1 included) are handed to
\* the vector store as supplied.
C28_InRangeParametersUnchanged ==
  (scalls.query > 0 /\ SuppliedInRange) =>
    /\ 100 * sparams.limit = sreq.limit.v
    /\ sparams.scoreThreshold = sreq.scoreThreshold.v

\* ------------------------------------------------------------------------
\* Properties of one request, upload or search (specification SpecRequest)
\* ------------------------------------------------------------------------
\* C22: no automatic retry: within one upload the description call, the
\* embedding call and the store call are each issued at most once per
\* file, and within one search the embedding call and the store query are
\* each issued at most once, whatever fails.
C22_NoAutomaticRetry ==
  /\ \A i \in DOMAIN calls :
       /\ calls[i].describe <= 1
       /\ calls[i].embed <= 1
       /\ calls[i].store <= 1
  /\ scalls.embed <= 1
  /\ scalls.query <= 1

C22_Witness ==
  /\ hpc = "responded"
  /\ resp.kind = "batch"
  /\ Len(reqFiles) = 2
  /\ hist[1].procErr = "E_OPENAI_RATE_LIMIT"
  /\ hist[2].procErr = "E_STORE_UNAVAILABLE"
  /\ calls[1].describe = 1
  /\ calls[1].embed = 1
  /\ calls[1].store = 0
  /\ calls[2].store = 1

\* ------------------------------------------------------------------------
\* Properties of the temporary files (specification Spec)
\* ------------------------------------------------------------------------
\* C23: once an upload request that stored temporary files is answered,
\* none of its temporary files remains in the uploads directory.
C23_NoTemporaryFileRemains ==
  (hpc = "responded" /\ reqFiles # << >>) => uploads = {}

\* ------------------------------------------------------------------------
\* Properties of the isInitialized flag (specification SpecLifecycle)
\* ------------------------------------------------------------------------
\* the requests among the callers
RequestCallers == 2..Len(callers)

\* an initialisation of caller c fails in this step
InitializationFails(c) ==
  /\ callers[c].pc \in {"waiting", "init"}
  /\ callers'[c].pc \in {"failed", "logged", "exit"}

\* the collection initialisation of some caller succeeds in this step
CollectionInitSucceeds ==
  \E c \in DOMAIN callers :
    callers[c].pc = "init" /\ callers'[c].pc \in {"work", "ok"}

C25_SingleInitialisationInFlight ==
  Cardinality({ c \in DOMAIN callers : callers[c].pc = "init" }) <= 1

\* C26: a failed startup initialisation is logged and the process keeps
\* serving; every request that finds the flag false calls initialize()
\* before its work; once the flag is true initialize() is not called again.
C26_StartupFailureIsSurvived ==
  /\ []((callers # << >> /\ callers[1].attempted
           /\ callers[1].pc \notin {"init", "ok"})
          => (callers[1].pc = "logged" /\ serving))
  /\ [](\A c \in RequestCallers :
          (callers[c].pc # "waiting" /\ ~callers[c].arrivedFlag)
            => callers[c].attempted)
  /\ [](\A c \in RequestCallers : callers[c].worked => isInitialized)
  /\ [][isInitialized => initializeCalls' = initializeCalls]_vars

C26_Witness ==
  /\ Len(callers) = MaxCallers + 1
  /\ callers[1].pc = "logged"
  /\ serving
  /\ callers[2].pc = "ok"
  /\ callers[2].attempted
  /\ callers[3].pc = "ok"
  /\ ~callers[3].attempted
  /\ initializeCalls = 2
  /\ isInitialized

\* ------------------------------------------------------------------------
\* Properties of the frontend search hook (specification SpecHook)
\* ------------------------------------------------------------------------
\* some search is still awaiting its response
SearchInFlight == \E k \in DOMAIN searches : searches[k].pc = "inflight"

\* the search started last
Latest == searches[Len(searches)]

\* C30: when no search is in flight, the query of the state is that of the
\* search started last, the results of the state are its results (if it
\* returned any) and isSearching and isLoading are false; while the search
\* started last is in flight, an earlier search that settles neither
\* replaces its query nor clears the two flags.
C30_LatestSearchWins ==
  (searches # << >>) =>
    /\ hstate.searchQuery = Latest.query
    /\ ~SearchInFlight =>
         /\ ~isSearching
         /\ ~hstate.isLoading
         /\ (Latest.result.success /\ Latest.result.hasData)
              => hstate.searchResults = resultsOf(Len(searches), Latest.result)
    /\ (Latest.pc = "inflight") => (isSearching /\ hstate.isLoading)
====
